---- MODULE Spec2Model ----
(***************************************************************************)
(* State-machine model of the N-body physics engine of Space-Engine        *)
(* (src/src/physics.py, celestial_body.py, particles.py, vector3.py).      *)
(*                                                                         *)
(* Numbers.  Python floats are modelled by exact rationals <<n, d>> in     *)
(* lowest terms (d > 0).  The arithmetic of the collision handlers is      *)
(* exact.  Where the program itself leaves the rationals (cube roots of    *)
(* radii) or where an exact value would not fit TLC's integers (the        *)
(* gravity pass and the integrator's increments) the result is rounded to  *)
(* a fixed grid, the way a float operation rounds to a representable       *)
(* number.                                                                 *)
(*                                                                         *)
(* Vectors.  A Vector3 is modelled by its x component: every body of the   *)
(* model lies on the x axis with a velocity along it (y = z = 0), and the  *)
(* random ejection directions are drawn from the two axis directions.      *)
(* magnitude is then the absolute value.                                   *)
(*                                                                         *)
(* Names.  A body name is a sequence of text chunks; name.lower() maps     *)
(* each chunk through Lower and the substring tests look for a chunk.      *)
(***************************************************************************)
EXTENDS Integers, Sequences, FiniteSets, TLC

(***************************************************************************)
(* Rational arithmetic                                                     *)
(***************************************************************************)
IAbs(k) == IF k < 0 THEN -k ELSE k

RECURSIVE GCD(_, _)
GCD(a, b) == IF b = 0 THEN a ELSE GCD(b, a % b)

\* n/d in lowest terms, d # 0
Rat(n, d) ==
    LET s == IF d < 0 THEN -1 ELSE 1
        g == GCD(IAbs(n), IAbs(d))
    IN  <<(s * n) \div g, (s * d) \div g>>

R(k) == <<k, 1>>

RNeg(a) == <<-a[1], a[2]>>

RAdd(a, b) ==
    LET g == GCD(a[2], b[2])
        l == (a[2] \div g) * b[2]
    IN  Rat(a[1] * (l \div a[2]) + b[1] * (l \div b[2]), l)

RSub(a, b) == RAdd(a, RNeg(b))

RMul(a, b) ==
    LET g1 == GCD(IAbs(a[1]), b[2])
        g2 == GCD(IAbs(b[1]), a[2])
    IN  Rat((a[1] \div g1) * (b[1] \div g2), (a[2] \div g2) * (b[2] \div g1))

\* b # 0
RDiv(a, b) == RMul(a, Rat(b[2], b[1]))

RLt(a, b) ==
    LET g == GCD(a[2], b[2])
    IN  a[1] * (b[2] \div g) < b[1] * (a[2] \div g)

RLe(a, b) == ~RLt(b, a)

RAbs(a) == <<IAbs(a[1]), a[2]>>

RMax(a, b) == IF RLt(a, b) THEN b ELSE a

RMin(a, b) == IF RLt(b, a) THEN b ELSE a

\* int(x) of Python for x >= 0, and floor in general
RFloor(a) == a[1] \div a[2]

\* a rounded to the nearest multiple of 1/g (ties upward): the rounding of a
\* float operation, on a grid coarse enough for TLC's integers
RoundTo(a, g) ==
    LET q == a[1] \div a[2]
        r == a[1] % a[2]
    IN  Rat(q * g + ((2 * r * g + a[2]) \div (2 * a[2])), g)

Zero == R(0)

(***************************************************************************)
(* Names: str.lower() and the substring tests of CollisionEvent            *)
(***************************************************************************)
\* chunk.lower()
Lower(c) ==
    CASE c = "Black Hole" -> "black hole"
      [] c = "BLACK HOLE" -> "black hole"
      [] c = "Neutron" -> "neutron"
      [] c = "NEUTRON" -> "neutron"
      [] OTHER -> c

\* key in name.lower()
NameContains(name, key) == \E i \in 1..Len(name) : Lower(name[i]) = key

\* the substring tests without lower()
IsBlackHoleNameCaseSensitive(name) == \E i \in 1..Len(name) : name[i] = "black hole"

IsBlackHoleName(name) == NameContains(name, "black hole")

IsNeutronNameCaseSensitive(name) == \E i \in 1..Len(name) : name[i] = "neutron"

IsNeutronName(name) == NameContains(name, "neutron")

(***************************************************************************)
(* CelestialBody.__init__: the fields the engine reads and writes.  id is  *)
(* the object's identity (the class defines no __eq__, so "in" and         *)
(* list.remove compare identities); color and is_selected only feed the    *)
(* renderer and are left out.                                              *)
(***************************************************************************)
DefaultTrailLength == 500

TrailUpdateFrequency == 5

CelestialBody(id, name, mass, radius, position, velocity, is_star, trail_length) ==
    [id |-> id, name |-> name, mass |-> mass, radius |-> radius,
     position |-> position, velocity |-> velocity, is_star |-> is_star,
     acceleration |-> Zero, trail |-> <<>>, trail_length |-> trail_length,
     trail_update_counter |-> 0]

\* Vector3.magnitude of a vector on the x axis
Magnitude(v) == RAbs(v)

(***************************************************************************)
(* CollisionEvent.__init__: the classification of a colliding pair         *)
(***************************************************************************)
ImpactVelocityExplosion == 50

ImpactVelocityFragment == 20

MassRatioFragment == 5

\* the ratio without the floor of 0.001 under the smaller mass
MassRatioUnclamped(body1, body2) ==
    RDiv(RMax(body1.mass, body2.mass), RMin(body1.mass, body2.mass))

\* mass_ratio = max(m1, m2) / max(0.001, min(m1, m2))
MassRatio(body1, body2) ==
    RDiv(RMax(body1.mass, body2.mass),
         RMax(Rat(1, 1000), RMin(body1.mass, body2.mass)))

\* the classification with the neutron rule applied to the first body only
CollisionTypeFirstNeutronOnly(body1, body2, impact_velocity) ==
    LET body1_is_black_hole == IsBlackHoleName(body1.name)
        body2_is_black_hole == IsBlackHoleName(body2.name)
        body1_is_neutron == IsNeutronName(body1.name)
        body2_is_neutron == IsNeutronName(body2.name)
        half == Rat(1, 2)
    IN  IF body1_is_black_hole /\ ~body2_is_black_hole THEN "black_hole_consume"
        ELSE IF body2_is_black_hole /\ ~body1_is_black_hole THEN "black_hole_consume"
        ELSE IF body1_is_black_hole /\ body2_is_black_hole THEN "black_hole_merge"
        ELSE IF body1_is_neutron /\ ~body2.is_star
                /\ RLt(body2.mass, RMul(body1.mass, half)) THEN "neutron_consume"
        ELSE IF body1_is_neutron \/ body2_is_neutron THEN "merge"
        ELSE IF (body1.is_star /\ ~body1_is_neutron)
                \/ (body2.is_star /\ ~body2_is_neutron) THEN "merge"
        ELSE IF RLt(R(ImpactVelocityExplosion), impact_velocity) THEN "explosion"
        ELSE IF RLt(R(ImpactVelocityFragment), impact_velocity)
                /\ RLt(MassRatio(body1, body2), R(MassRatioFragment)) THEN "fragment"
        ELSE "merge"

CollisionType(body1, body2, impact_velocity) ==
    LET body1_is_black_hole == IsBlackHoleName(body1.name)
        body2_is_black_hole == IsBlackHoleName(body2.name)
        body1_is_neutron == IsNeutronName(body1.name)
        body2_is_neutron == IsNeutronName(body2.name)
        half == Rat(1, 2)
    IN  IF body1_is_black_hole /\ ~body2_is_black_hole THEN "black_hole_consume"
        ELSE IF body2_is_black_hole /\ ~body1_is_black_hole THEN "black_hole_consume"
        ELSE IF body1_is_black_hole /\ body2_is_black_hole THEN "black_hole_merge"
        ELSE IF body1_is_neutron /\ ~body2.is_star
                /\ RLt(body2.mass, RMul(body1.mass, half)) THEN "neutron_consume"
        ELSE IF body2_is_neutron /\ ~body1.is_star
                /\ RLt(body1.mass, RMul(body2.mass, half)) THEN "neutron_consume"
        ELSE IF body1_is_neutron \/ body2_is_neutron THEN "merge"
        ELSE IF (body1.is_star /\ ~body1_is_neutron)
                \/ (body2.is_star /\ ~body2_is_neutron) THEN "merge"
        ELSE IF RLt(R(ImpactVelocityExplosion), impact_velocity) THEN "explosion"
        ELSE IF RLt(R(ImpactVelocityFragment), impact_velocity)
                /\ RLt(MassRatio(body1, body2), R(MassRatioFragment)) THEN "fragment"
        ELSE "merge"

CollisionEvent(body1, body2, impact_velocity, position) ==
    [body1 |-> body1, body2 |-> body2, impact_velocity |-> impact_velocity,
     position |-> position,
     collision_type |-> CollisionType(body1, body2, impact_velocity)]

(***************************************************************************)
(* ParticleSystem.  The particle list is kept as a sequence of batches:    *)
(* the particles one emission call appends, which share their kind and (a  *)
(* choice of the random draws) their lifetime.  Particle positions,        *)
(* velocities, colours and sizes are left out: nothing in the engine reads *)
(* them back.                                                              *)
(***************************************************************************)
MaxParticles == 10000

RECURSIVE ParticleCount(_)
ParticleCount(ps) ==
    IF ps = <<>> THEN 0 ELSE Head(ps).n + ParticleCount(Tail(ps))

\* the same loop making room at capacity by dropping the oldest particles
EmitParticlesEvicting(ps, num, lifetime, particle_type) ==
    IF ParticleCount(ps) + num <= MaxParticles
    THEN Append(ps, [n |-> num, lifetime |-> lifetime, particle_type |-> particle_type])
    ELSE Append(Tail(ps), [n |-> num, lifetime |-> lifetime,
                           particle_type |-> particle_type])

\* the same loop without its capacity test: num particles, room or not
EmitParticlesUnchecked(ps, num, lifetime, particle_type) ==
    Append(ps, [n |-> num, lifetime |-> lifetime, particle_type |-> particle_type])

\* a loop "for _ in range(num): if len(particles) >= max_particles: break;
\* ...; particles.append(...)": appends min(num, free room) particles
EmitParticles(ps, num, lifetime, particle_type) ==
    LET room == MaxParticles - ParticleCount(ps)
        k == IF num < room THEN num ELSE room
    IN  IF k > 0
        THEN Append(ps, [n |-> k, lifetime |-> lifetime, particle_type |-> particle_type])
        ELSE ps

\* random.uniform(lo, hi) for the draw u of random.random()
Uniform(lo, hi, u) == RAdd(lo, RMul(RSub(hi, lo), u))

create_explosion(ps, num_particles, lifetime, u) ==
    EmitParticles(ps, num_particles,
                  RMul(lifetime, Uniform(Rat(1, 2), Rat(3, 2), u)), "explosion")

create_debris(ps, num_particles, u) ==
    EmitParticles(ps, num_particles, Uniform(R(3), R(8), u), "debris")

create_shockwave(ps, num_particles) ==
    EmitParticles(ps, num_particles, Rat(1, 2), "shockwave")

create_fire_trail(ps, u) ==
    EmitParticles(ps, 1, Uniform(Rat(3, 10), Rat(8, 10), u), "fire")

\* Particle.update for every particle, then the filter on alive
RECURSIVE ParticlesUpdate(_, _)
ParticlesUpdate(ps, dt) ==
    IF ps = <<>> THEN <<>>
    ELSE LET p == Head(ps)
             life == RSub(p.lifetime, dt)
             rest == ParticlesUpdate(Tail(ps), dt)
         IN  IF RLe(life, Zero) THEN rest
             ELSE <<[p EXCEPT !.lifetime = life]>> \o rest

(***************************************************************************)
(* Radii.  x ** 3 and x ** (1/3) are evaluated on a grid of 1/RadiusGrid.  *)
(***************************************************************************)
RadiusGrid == 10

\* the radius in grid units
GridUnits(r) == RoundTo(r, RadiusGrid)[1] * (RadiusGrid \div RoundTo(r, RadiusGrid)[2])

RECURSIVE ICbrtSearch(_, _, _)
\* the largest k in lo..hi with k^3 <= s (lo^3 <= s)
ICbrtSearch(s, lo, hi) ==
    IF lo >= hi THEN lo
    ELSE LET mid == (lo + hi + 1) \div 2
         IN  IF mid * mid * mid <= s THEN ICbrtSearch(s, mid, hi)
             ELSE ICbrtSearch(s, lo, mid - 1)

\* ((r1**3 + r2**3) * num / den) ** (1/3)
CubeRootOfCubes(r1, r2, num, den) ==
    LET k1 == GridUnits(r1)
        k2 == GridUnits(r2)
        s == ((k1 * k1 * k1 + k2 * k2 * k2) \div den) * num
    IN  Rat(ICbrtSearch(s, 0, 1200), RadiusGrid)

(***************************************************************************)
(* The collision handlers.  Each takes the event, the particle list, the   *)
(* value of collision_count (already incremented), the identity of the     *)
(* first object it creates and the random draws rnd of this call:          *)
(*   rnd.n  the value of random.randint for the number of fragments,       *)
(*   rnd.d  the direction (+1 or -1 along x) of fragment 0; the next       *)
(*          fragments alternate,                                           *)
(*   rnd.u, rnd.w  the draws of random.random() behind random.uniform, for *)
(*          the even and the odd fragments.                                *)
(* The result is [add: the bodies appended to _bodies_to_add,              *)
(*                particles: the particle list afterwards].                *)
(***************************************************************************)
Direction(rnd, i) == IF i % 2 = 0 THEN R(rnd.d) ELSE R(-rnd.d)

Draw(rnd, i) == IF i % 2 = 0 THEN rnd.u ELSE rnd.w

\* the plain average of the two velocities
MomentumVelocityUnweighted(b1, b2) == RMul(RAdd(b1.velocity, b2.velocity), Rat(1, 2))

\* (v1 * m1 + v2 * m2) / (m1 + m2)
MomentumVelocity(b1, b2) ==
    RDiv(RAdd(RMul(b1.velocity, b1.mass), RMul(b2.velocity, b2.mass)),
         RAdd(b1.mass, b2.mass))

\* the product placed at the point of impact
\* the consume handler naming its product after the consumed body
handle_black_hole_consume_naming_consumed(event, ps, count, id0, rnd) ==
    LET body1 == event.body1
        body2 == event.body2
        black_hole == IF IsBlackHoleName(body1.name) THEN body1 ELSE body2
        consumed == IF black_hole.id = body1.id THEN body2 ELSE body1
        new_mass == RAdd(black_hole.mass, consumed.mass)
        new_radius == RoundTo(RMul(black_hole.radius,
                          RAdd(R(1), RMul(Rat(5, 100), RDiv(consumed.mass, black_hole.mass)))),
                          RadiusGrid)
        new_velocity == MomentumVelocity(black_hole, consumed)
        enhanced_black_hole ==
            CelestialBody(id0, consumed.name, new_mass, new_radius,
                          black_hole.position, new_velocity, TRUE, DefaultTrailLength)
    IN  [add |-> <<enhanced_black_hole>>,
         particles |-> create_debris(ps, 80, rnd.u)]

handle_black_hole_consume_at_impact(event, ps, count, id0, rnd) ==
    LET body1 == event.body1
        body2 == event.body2
        black_hole == IF IsBlackHoleName(body1.name) THEN body1 ELSE body2
        consumed == IF black_hole.id = body1.id THEN body2 ELSE body1
        new_mass == RAdd(black_hole.mass, consumed.mass)
        new_radius == RoundTo(RMul(black_hole.radius,
                          RAdd(R(1), RMul(Rat(5, 100), RDiv(consumed.mass, black_hole.mass)))),
                          RadiusGrid)
        new_velocity == MomentumVelocity(black_hole, consumed)
        enhanced_black_hole ==
            CelestialBody(id0, black_hole.name, new_mass, new_radius,
                          event.position, new_velocity, TRUE, DefaultTrailLength)
    IN  [add |-> <<enhanced_black_hole>>,
         particles |-> create_debris(ps, 80, rnd.u)]

handle_black_hole_consume(event, ps, count, id0, rnd) ==
    LET body1 == event.body1
        body2 == event.body2
        black_hole == IF IsBlackHoleName(body1.name) THEN body1 ELSE body2
        consumed == IF black_hole.id = body1.id THEN body2 ELSE body1
        new_mass == RAdd(black_hole.mass, consumed.mass)
        new_radius == RoundTo(RMul(black_hole.radius,
                          RAdd(R(1), RMul(Rat(5, 100), RDiv(consumed.mass, black_hole.mass)))),
                          RadiusGrid)
        new_velocity == MomentumVelocity(black_hole, consumed)
        enhanced_black_hole ==
            CelestialBody(id0, black_hole.name, new_mass, new_radius,
                          black_hole.position, new_velocity, TRUE, DefaultTrailLength)
    IN  [add |-> <<enhanced_black_hole>>,
         particles |-> create_debris(ps, 80, rnd.u)]

handle_black_hole_merge(event, ps, count, id0, rnd) ==
    LET body1 == event.body1
        body2 == event.body2
        total_mass == RAdd(body1.mass, body2.mass)
        new_velocity == MomentumVelocity(body1, body2)
        new_radius == RMul(RMax(body1.radius, body2.radius), Rat(14, 10))
        merged_black_hole ==
            CelestialBody(id0, <<"Supermassive ", "Black Hole">>,
                          RMul(total_mass, Rat(95, 100)), new_radius,
                          event.position, new_velocity, TRUE, DefaultTrailLength)
    IN  [add |-> <<merged_black_hole>>,
         particles |->
            create_shockwave(create_shockwave(create_shockwave(create_shockwave(
                ps, 100), 100), 100), 100)]

handle_neutron_consume(event, ps, count, id0, rnd) ==
    LET body1 == event.body1
        body2 == event.body2
        neutron == IF IsNeutronName(body1.name) THEN body1 ELSE body2
        consumed == IF neutron.id = body1.id THEN body2 ELSE body1
        new_mass == RAdd(neutron.mass, consumed.mass)
        new_radius == RoundTo(RMul(neutron.radius,
                          RAdd(R(1), RMul(Rat(2, 100), RDiv(consumed.mass, neutron.mass)))),
                          RadiusGrid)
        new_velocity == MomentumVelocity(neutron, consumed)
        enhanced_neutron ==
            CelestialBody(id0, neutron.name, new_mass, new_radius,
                          neutron.position, new_velocity, TRUE, DefaultTrailLength)
    IN  [add |-> <<enhanced_neutron>>,
         particles |-> create_explosion(ps, 60, Rat(3, 2), rnd.u)]

SupernovaMassThreshold == 4000

\* the second threshold taken for the first
BlackHoleMassThresholdAtSupernova == SupernovaMassThreshold

BlackHoleMassThreshold == 6000

handle_supernova(event, total_mass, position, velocity, ps, count, id0, rnd) ==
    LET ps1 == create_explosion(ps, 800, R(5), rnd.u)
        ps2 == create_shockwave(create_shockwave(create_shockwave(ps1, 150), 150), 150)
        ps3 == create_debris(ps2, 200, rnd.u)
        remnant ==
            IF RLt(R(BlackHoleMassThreshold), total_mass)
            THEN CelestialBody(id0, <<"Black Hole">>, RMul(total_mass, Rat(4, 10)), R(8),
                               position, velocity, TRUE, DefaultTrailLength)
            ELSE CelestialBody(id0, <<"Neutron", " Star">>, RMul(total_mass, Rat(3, 10)), R(4),
                               position, velocity, TRUE, DefaultTrailLength)
        num_fragments == rnd.n
        ejected_mass == RDiv(RMul(total_mass, Rat(1, 10)), R(num_fragments))
        fragment(i) ==
            LET direction == Direction(rnd, i)
                frag_velocity == RAdd(velocity, RMul(direction, Uniform(R(80), R(150), Draw(rnd, i))))
                frag_position == RAdd(position, RMul(direction, R(50)))
            IN  CelestialBody(id0 + 1 + i,
                              <<"Nebula_", ToString(count), "_", ToString(i)>>,
                              ejected_mass, Uniform(R(3), R(8), Draw(rnd, i)),
                              frag_position, frag_velocity, FALSE, DefaultTrailLength)
    IN  [add |-> <<remnant>> \o [k \in 1..num_fragments |-> fragment(k - 1)],
         particles |-> ps3]

handle_merge(event, ps, count, id0, rnd) ==
    LET body1 == event.body1
        body2 == event.body2
        total_mass == RAdd(body1.mass, body2.mass)
        new_velocity == MomentumVelocity(body1, body2)
        new_position == event.position
        new_radius == CubeRootOfCubes(body1.radius, body2.radius, 1, 1)
        body1_is_exotic == IsBlackHoleName(body1.name) \/ IsNeutronName(body1.name)
        body2_is_exotic == IsBlackHoleName(body2.name) \/ IsNeutronName(body2.name)
        is_star == body1.is_star \/ body2.is_star
        larger == IF RLt(body2.mass, body1.mass) THEN body1 ELSE body2
        merged ==
            CelestialBody(id0, larger.name \o <<"+">>, total_mass, new_radius,
                          new_position, new_velocity, is_star, DefaultTrailLength)
    IN  IF is_star /\ ~body1_is_exotic /\ ~body2_is_exotic
           /\ RLt(R(SupernovaMassThreshold), total_mass)
        THEN handle_supernova(event, total_mass, new_position, new_velocity,
                              ps, count, id0, rnd)
        ELSE [add |-> <<merged>>,
              particles |-> create_explosion(ps, 30, R(1), rnd.u)]

\* a tenth of the total for each fragment
explosion_fragment_mass_tenth(total_mass) == RMul(total_mass, Rat(1, 10))

\* fragment_mass = total_mass * 0.05
explosion_fragment_mass(total_mass) == RMul(total_mass, Rat(5, 100))

handle_explosion(event, ps, count, id0, rnd) ==
    LET body1 == event.body1
        body2 == event.body2
        total_mass == RAdd(body1.mass, body2.mass)
        combined_velocity == RMul(RAdd(body1.velocity, body2.velocity), Rat(1, 2))
        num_particles == RFloor(RMin(R(500), RMul(total_mass, R(50))))
        ps1 == create_explosion(ps, num_particles, R(3), rnd.u)
        ps2 == create_shockwave(ps1, 80)
        ps3 == create_debris(ps2, num_particles \div 2, rnd.u)
        num_fragments == rnd.n
        fragment_mass == explosion_fragment_mass(total_mass)
        fragment(i) ==
            LET direction == Direction(rnd, i)
                frag_velocity == RAdd(combined_velocity,
                                      RMul(RMul(direction, event.impact_velocity), Rat(1, 2)))
                frag_position == RAdd(event.position,
                                      RMul(direction, RAdd(body1.radius, body2.radius)))
            IN  CelestialBody(id0 + i,
                              <<"Fragment_", ToString(count), "_", ToString(i)>>,
                              fragment_mass,
                              RMax(R(1), RMul(RAdd(body1.radius, body2.radius), Rat(1, 10))),
                              frag_position, frag_velocity, FALSE, DefaultTrailLength)
    IN  [add |-> IF RLt(fragment_mass, Rat(1, 1000)) THEN <<>>
                 ELSE [k \in 1..num_fragments |-> fragment(k - 1)],
         particles |-> ps3]

handle_fragmentation(event, ps, count, id0, rnd) ==
    LET body1 == event.body1
        body2 == event.body2
        total_mass == RAdd(body1.mass, body2.mass)
        combined_velocity == MomentumVelocity(body1, body2)
        core_mass == RMul(total_mass, Rat(6, 10))
        core_radius == CubeRootOfCubes(body1.radius, body2.radius, 6, 10)
        larger == IF RLt(body2.mass, body1.mass) THEN body1 ELSE body2
        core ==
            CelestialBody(id0, larger.name \o <<"*">>, core_mass, core_radius,
                          event.position, combined_velocity,
                          body1.is_star \/ body2.is_star, DefaultTrailLength)
        remaining_mass == RSub(total_mass, core_mass)
        num_fragments == rnd.n
        frag_mass == RDiv(remaining_mass, R(num_fragments))
        fragment(i) ==
            LET direction == Direction(rnd, i)
                eject_speed == RMul(event.impact_velocity,
                                    Uniform(Rat(3, 10), Rat(7, 10), Draw(rnd, i)))
                frag_velocity == RAdd(combined_velocity, RMul(direction, eject_speed))
                frag_position == RAdd(event.position,
                                      RMul(direction, RAdd(core_radius, R(5))))
                frag_radius == RMax(R(1), RMul(RMul(core_radius, Rat(3, 10)),
                                               Uniform(Rat(1, 2), Rat(3, 2), Draw(rnd, i))))
            IN  CelestialBody(id0 + 1 + i,
                              <<"Fragment_", ToString(count), "_", ToString(i)>>,
                              RMul(frag_mass, Uniform(Rat(1, 2), Rat(3, 2), Draw(rnd, i))),
                              frag_radius, frag_position, frag_velocity, FALSE,
                              DefaultTrailLength)
    IN  [add |-> <<core>> \o [k \in 1..num_fragments |-> fragment(k - 1)],
         particles |-> create_debris(create_explosion(ps, 100, R(2), rnd.u), 50, rnd.u)]

\* the dispatch of handle_collision on event.collision_type
Resolve(event, ps, count, id0, rnd) ==
    CASE event.collision_type = "black_hole_consume" ->
            handle_black_hole_consume(event, ps, count, id0, rnd)
      [] event.collision_type = "black_hole_merge" ->
            handle_black_hole_merge(event, ps, count, id0, rnd)
      [] event.collision_type = "neutron_consume" ->
            handle_neutron_consume(event, ps, count, id0, rnd)
      [] event.collision_type = "explosion" ->
            handle_explosion(event, ps, count, id0, rnd)
      [] event.collision_type = "fragment" ->
            handle_fragmentation(event, ps, count, id0, rnd)
      [] OTHER -> handle_merge(event, ps, count, id0, rnd)

(***************************************************************************)
(* Floating point of the gravity pass and of the integrator.  The values   *)
(* of these passes are rounded, after every multiplication and division,   *)
(* to a float with a MantissaBits-bit mantissa and a smallest quantum of   *)
(* 2^-QuantumBits; values that fit are kept exactly, as a float keeps a    *)
(* representable number.  Sums are exact.                                  *)
(***************************************************************************)
MantissaBits == 12

QuantumBits == 10

RECURSIVE QuantumExp(_, _)
\* the least k >= start with floor < 2^(MantissaBits + k)
QuantumExp(floor, k) ==
    IF floor < 2 ^ (MantissaBits + k) THEN k ELSE QuantumExp(floor, k + 1)

RECURSIVE LongDiv(_, _, _, _)
\* round((q + r/d) * 2^steps), 0 <= r < d
LongDiv(q, r, d, steps) ==
    IF steps = 0 THEN (IF 2 * r >= d THEN q + 1 ELSE q)
    ELSE IF 2 * r >= d THEN LongDiv(2 * q + 1, 2 * r - d, d, steps - 1)
         ELSE LongDiv(2 * q, 2 * r, d, steps - 1)

\* n/d > 0 rounded to a multiple of the quantum 2^k
RoundAt(n, d, k) ==
    IF k >= 0
    THEN Rat(LongDiv(n \div (d * 2 ^ k), n % (d * 2 ^ k), d * 2 ^ k, 0) * 2 ^ k, 1)
    ELSE Rat(LongDiv(n \div d, n % d, d, -k), 2 ^ (-k))

Fl(x) ==
    IF x[1] = 0 THEN Zero
    ELSE IF x[1] < 0
         THEN RNeg(RoundAt(-x[1], x[2], QuantumExp((-x[1]) \div x[2], -QuantumBits)))
         ELSE RoundAt(x[1], x[2], QuantumExp(x[1] \div x[2], -QuantumBits))

\* a product with a factor 0 is 0
FMul(a, b) == IF a = Zero \/ b = Zero THEN Zero ELSE Fl(RMul(Fl(a), Fl(b)))

\* b # 0; 0 / b is 0 whatever b is
FDiv(a, b) == IF a = Zero THEN Zero ELSE Fl(RDiv(Fl(a), Fl(b)))

(***************************************************************************)
(* The engine's state                                                      *)
(***************************************************************************)
VARIABLES
    bodies,              \* PhysicsEngine.bodies, the roster
    time_scale,
    paused,
    total_time,
    particles,           \* PhysicsEngine.particles.particles
    collisions_enabled,
    bodies_to_add,       \* PhysicsEngine._bodies_to_add
    bodies_to_remove,    \* PhysicsEngine._bodies_to_remove
    collision_count,
    pc,                  \* where update() stands: "idle" between calls
    collisions,          \* update()'s local list of events still to handle
    scaled_dt,           \* update()'s local scaled_dt
    next_id,             \* the identity of the next object created
    handled,             \* the events handle_collision was called with in this
                         \* frame: whether it resolved the event, the bodies it
                         \* scheduled and the calls of the collision callback
    calls,               \* calls of the engine's methods so far
    last_call,           \* the last method called: its name, its argument, the
                         \* value it returned and whether it raised
    collision_callback,  \* PhysicsEngine.collision_callback: TRUE when a
                         \* callback is set, FALSE for None
    step                 \* the _physics_step call in progress: the stage it
                         \* stands at, whether the forces of that stage are
                         \* computed, its dt, the roster it started from, the
                         \* number of _physics_step calls completed, and that
                         \* number when the trails were last cleared

vars == <<bodies, time_scale, paused, total_time, particles, collisions_enabled,
          bodies_to_add, bodies_to_remove, collision_count, pc, collisions,
          scaled_dt, next_id, handled, calls, last_call, collision_callback,
          step>>

\* no _physics_step call has run yet
NoStep == [at |-> 0, fresh |-> FALSE, dt |-> Zero, start |-> <<>>, count |-> 0,
           cleared |-> 0]

\* the record of a call that returned
Call(op, arg, returned) == [op |-> op, arg |-> arg, returned |-> returned, raised |-> FALSE]

RECURSIVE ListOf(_, _)
\* the Python list of the first n entries of f, built entry by entry
ListOf(f, n) == IF n = 0 THEN <<>> ELSE Append(ListOf(f, n - 1), f[n])

\* body in list (identity)
InList(body, list) == \E k \in 1..Len(list) : list[k].id = body.id

RECURSIVE RemoveFirst(_, _)
\* list.remove(body)
RemoveFirst(list, body) ==
    IF list = <<>> THEN <<>>
    ELSE IF Head(list).id = body.id THEN Tail(list)
    ELSE <<Head(list)>> \o RemoveFirst(Tail(list), body)

(***************************************************************************)
(* compute_gravitational_forces                                            *)
(***************************************************************************)
G == 100

BaseSubsteps == 8

\* min_softening = 0.1
MinSoftening == Rat(1, 10)

\* max_substep_dt = 0.02
MaxSubstepDt == Rat(2, 100)

\* force_magnitude: G * m_i * m_j / sd^2, evaluated as (G * m_i) * (m_j / sd^2)
ForceMagnitude(body_i, body_j, softened_dist) ==
    FMul(FMul(R(G), body_i.mass), FDiv(body_j.mass, FMul(softened_dist, softened_dist)))

\* Vector3.__truediv__ raises ValueError for the scalar 0
TrueDivRaises(scalar) == scalar = Zero

\* force_magnitude is divided by the distance whatever the distance is
DividesByDistanceAlways(distance) == TRUE

\* "if distance > 0": force_magnitude is divided by the distance
DividesByDistance(distance) == RLt(Zero, distance)

\* the force of one pair, from its direction vector and its min_dist
ForceAlong(body_i, body_j, direction, min_dist) ==
    IF RLt(Magnitude(direction), min_dist) THEN Zero
    ELSE IF DividesByDistance(Magnitude(direction))
         THEN FMul(direction,
                   FDiv(ForceMagnitude(body_i, body_j,
                                       RMax(Magnitude(direction),
                                            RMax(MinSoftening, RMul(min_dist, Rat(1, 10))))),
                        Magnitude(direction)))
         ELSE Zero

\* the force applied to body_i by the pair (body_i, body_j), i < j; Zero for a
\* pair the pass skips
PairForce(body_i, body_j) ==
    ForceAlong(body_i, body_j, RSub(body_j.position, body_i.position),
               RMul(RAdd(body_i.radius, body_j.radius), Rat(1, 2)))

\* CelestialBody.apply_force: the acceleration added
ForceOverMass(body, force) == FDiv(force, body.mass)

RECURSIVE AccelerationOfSameForce(_, _, _)
\* the accumulation with the pair's force applied to both bodies unnegated
AccelerationOfSameForce(bs, k, j) ==
    IF j > Len(bs) THEN Zero
    ELSE IF j = k THEN AccelerationOfSameForce(bs, k, j + 1)
    ELSE IF k < j
         THEN RAdd(ForceOverMass(bs[k], PairForce(bs[k], bs[j])),
                   AccelerationOfSameForce(bs, k, j + 1))
         ELSE RAdd(ForceOverMass(bs[k], PairForce(bs[j], bs[k])),
                   AccelerationOfSameForce(bs, k, j + 1))

RECURSIVE AccelerationOf(_, _, _)
\* the acceleration body k has accumulated from the pairs with bodies j..n
AccelerationOf(bs, k, j) ==
    IF j > Len(bs) THEN Zero
    ELSE IF j = k THEN AccelerationOf(bs, k, j + 1)
    ELSE IF k < j
         THEN RAdd(ForceOverMass(bs[k], PairForce(bs[k], bs[j])),
                   AccelerationOf(bs, k, j + 1))
         ELSE RAdd(ForceOverMass(bs[k], RNeg(PairForce(bs[j], bs[k]))),
                   AccelerationOf(bs, k, j + 1))

compute_gravitational_forces(bs) ==
    ListOf([k \in 1..Len(bs) |->
               [bs[k] EXCEPT !.acceleration = AccelerationOf(bs, k, 1)]], Len(bs))

\* the pair is not skipped and the division by a zero distance
\* (ZeroDivisionError) is reached
DistanceRaises(body_i, body_j) ==
    /\ ~RLt(Magnitude(RSub(body_j.position, body_i.position)),
            RMul(RAdd(body_i.radius, body_j.radius), Rat(1, 2)))
    /\ Magnitude(RSub(body_j.position, body_i.position)) = Zero
    /\ DividesByDistance(Magnitude(RSub(body_j.position, body_i.position)))

\* the pair is not skipped and apply_force divides by a mass of 0 (ValueError)
MassRaises(body_i, body_j) ==
    /\ TrueDivRaises(body_i.mass) \/ TrueDivRaises(body_j.mass)
    /\ ~RLt(Magnitude(RSub(body_j.position, body_i.position)),
            RMul(RAdd(body_i.radius, body_j.radius), Rat(1, 2)))

\* the pairs <<i, j>>, i < j, at which the force pass over bs raises
RaisingPairs(bs) ==
    { p \in (1..Len(bs)) \X (1..Len(bs)) :
        /\ p[1] < p[2]
        /\ MassRaises(bs[p[1]], bs[p[2]]) \/ DistanceRaises(bs[p[1]], bs[p[2]]) }

ForcePassRaises(bs) == RaisingPairs(bs) # {}

\* the pair <<a, b>> comes before the pair p in the double loop
PairBefore(a, b, p) == a < p[1] \/ (a = p[1] /\ b < p[2])

\* the pair at which the pass raises: the first one in loop order
FirstRaisingPair(bs) ==
    CHOOSE p \in RaisingPairs(bs) :
        \A q \in RaisingPairs(bs) : q = p \/ PairBefore(p[1], p[2], q)

\* body k has received the force of its pair with body j when the pass raises
\* at the pair p: the earlier pairs, and p itself for its first body when the
\* raise is the second body's apply_force
ReceivedBeforeRaise(bs, k, j, p) ==
    \/ k < j /\ PairBefore(k, j, p)
    \/ j < k /\ PairBefore(j, k, p)
    \/ /\ k = p[1] /\ j = p[2]
       /\ ~DistanceRaises(bs[k], bs[j])
       /\ ~TrueDivRaises(bs[k].mass)

RECURSIVE AccelerationUntil(_, _, _, _)
\* the acceleration body k has accumulated from the pairs with bodies j..n
\* when the pass raises at the pair p
AccelerationUntil(bs, k, j, p) ==
    IF j > Len(bs) THEN Zero
    ELSE IF j = k \/ ~ReceivedBeforeRaise(bs, k, j, p) THEN AccelerationUntil(bs, k, j + 1, p)
    ELSE IF k < j
         THEN RAdd(ForceOverMass(bs[k], PairForce(bs[k], bs[j])),
                   AccelerationUntil(bs, k, j + 1, p))
         ELSE RAdd(ForceOverMass(bs[k], RNeg(PairForce(bs[j], bs[k]))),
                   AccelerationUntil(bs, k, j + 1, p))

\* the roster as the raising pass leaves it
ForcePassInterrupted(bs) ==
    ListOf([k \in 1..Len(bs) |->
               [bs[k] EXCEPT !.acceleration =
                                AccelerationUntil(bs, k, 1, FirstRaisingPair(bs))]],
           Len(bs))

(***************************************************************************)
(* _physics_step: the Yoshida integrator.  w0 and w1 are the source's      *)
(* coefficients to the model's float precision (w0 + 2 * w1 = 1).          *)
(***************************************************************************)
w1 == Rat(2767, 2048)

w0 == Rat(-3486, 2048)

c1 == RMul(w1, Rat(1, 2))

c2 == RMul(RAdd(w0, w1), Rat(1, 2))

c3 == c2

c4 == c1

d1 == w1

d2 == w0

d3 == w1

\* body.position = body.position + body.velocity * (c * dt), for every body
Drift(bs, c, dt) ==
    ListOf([k \in 1..Len(bs) |->
               [bs[k] EXCEPT !.position = RAdd(@, FMul(bs[k].velocity, FMul(c, dt)))]],
           Len(bs))

\* body.velocity = body.velocity + body.acceleration * (d * dt), for every body
KickVelocities(fs, d, dt) ==
    ListOf([k \in 1..Len(fs) |->
               [fs[k] EXCEPT !.velocity = RAdd(@, FMul(fs[k].acceleration, FMul(d, dt)))]],
           Len(fs))

\* compute_gravitational_forces(), then the velocity update
Kick(bs, d, dt) == KickVelocities(compute_gravitational_forces(bs), d, dt)

\* the trail update dropping the new point when the trail is full
UpdateTrailKeepingOldest(body) ==
    IF body.trail_update_counter + 1 >= TrailUpdateFrequency
    THEN [body EXCEPT !.trail = IF Len(body.trail) + 1 > body.trail_length
                                THEN body.trail
                                ELSE Append(body.trail, body.position),
                      !.trail_update_counter = 0]
    ELSE [body EXCEPT !.trail_update_counter = body.trail_update_counter + 1]

\* the trail update of the last drift
UpdateTrail(body) ==
    IF body.trail_update_counter + 1 >= TrailUpdateFrequency
    THEN [body EXCEPT !.trail = IF Len(body.trail) + 1 > body.trail_length
                                THEN Tail(Append(body.trail, body.position))
                                ELSE Append(body.trail, body.position),
                      !.trail_update_counter = 0]
    ELSE [body EXCEPT !.trail_update_counter = body.trail_update_counter + 1]

UpdateTrails(bs) == ListOf([k \in 1..Len(bs) |-> UpdateTrail(bs[k])], Len(bs))

\* the seven stages of one step, in the order _physics_step runs them
YoshidaStages ==
    << [op |-> "drift", coef |-> c1], [op |-> "kick", coef |-> d1],
       [op |-> "drift", coef |-> c2], [op |-> "kick", coef |-> d2],
       [op |-> "drift", coef |-> c3], [op |-> "kick", coef |-> d3],
       [op |-> "drift", coef |-> c4] >>

RunStage(bs, stage, dt) ==
    IF stage.op = "drift" THEN Drift(bs, stage.coef, dt) ELSE Kick(bs, stage.coef, dt)

\* what a piece of update() ends in: it raised or not, and the roster it left
Outcome(raised, bs) == [raised |-> raised, bodies |-> bs]

RECURSIVE RunStages(_, _, _)
\* the stages left to run on bs, up to the first force pass that raises; with
\* no body there is nothing to move
RunStages(bs, stages, dt) ==
    IF stages = <<>> \/ bs = <<>> THEN Outcome(FALSE, bs)
    ELSE IF Head(stages).op = "kick" /\ ForcePassRaises(bs)
         THEN Outcome(TRUE, ForcePassInterrupted(bs))
         ELSE RunStages(RunStage(bs, Head(stages), dt), Tail(stages), dt)

\* the trail updates that end _physics_step, not reached when it raised
TrailsAfter(out) ==
    IF out.raised THEN out ELSE Outcome(FALSE, UpdateTrails(out.bodies))

physics_step(bs, dt) == TrailsAfter(RunStages(bs, YoshidaStages, dt))

RECURSIVE PhysicsSteps(_, _, _)
RECURSIVE StepsAfter(_, _, _)
\* the sub-steps that follow a step that ended in out
StepsAfter(out, sub_dt, substeps) ==
    IF out.raised THEN out ELSE PhysicsSteps(out.bodies, sub_dt, substeps)

\* for _ in range(substeps): self._physics_step(sub_dt); with no body the
\* steps do nothing. The loop is evaluated as its first half followed by its
\* second half
PhysicsSteps(bs, sub_dt, substeps) ==
    IF substeps = 0 \/ bs = <<>> THEN Outcome(FALSE, bs)
    ELSE IF substeps = 1 THEN physics_step(bs, sub_dt)
    ELSE StepsAfter(PhysicsSteps(bs, sub_dt, substeps \div 2), sub_dt,
                    substeps - (substeps \div 2))

RECURSIVE StepsBeforeRaise(_, _, _)
\* the _physics_step calls of the loop that returned before one raised
StepsBeforeRaise(bs, sub_dt, substeps) ==
    IF substeps = 0 \/ physics_step(bs, sub_dt).raised THEN 0
    ELSE 1 + StepsBeforeRaise(physics_step(bs, sub_dt).bodies, sub_dt, substeps - 1)

\* the number of sub-steps without the ceiling on their duration
SubstepsNoCeiling(scaled, scale) ==
    IF BaseSubsteps < RFloor(RMul(R(BaseSubsteps), RMul(scale, Rat(1, 2))))
    THEN RFloor(RMul(R(BaseSubsteps), RMul(scale, Rat(1, 2))))
    ELSE BaseSubsteps

\* the number of sub-steps update() takes for scaled = dt * time_scale
Substeps(scaled, scale) ==
    LET base == IF BaseSubsteps < RFloor(RMul(R(BaseSubsteps), RMul(scale, Rat(1, 2))))
                THEN RFloor(RMul(R(BaseSubsteps), RMul(scale, Rat(1, 2))))
                ELSE BaseSubsteps
    IN  IF RLt(MaxSubstepDt, RDiv(scaled, R(base)))
        THEN RFloor(RDiv(scaled, MaxSubstepDt)) + 1
        ELSE base

(***************************************************************************)
(* detect_collisions                                                       *)
(***************************************************************************)
\* the event of the pair with touching bodies taken as colliding
PairEventTouching(body_i, body_j, to_remove) ==
    IF InList(body_i, to_remove) \/ InList(body_j, to_remove) THEN <<>>
    ELSE IF RLe(Magnitude(RSub(body_j.position, body_i.position)),
                RAdd(body_i.radius, body_j.radius))
         THEN <<CollisionEvent(body_i, body_j,
                               Magnitude(RSub(body_j.velocity, body_i.velocity)),
                               RDiv(RAdd(RMul(body_i.position, body_j.mass),
                                         RMul(body_j.position, body_i.mass)),
                                    RAdd(body_i.mass, body_j.mass)))>>
         ELSE <<>>

\* the event of the pair (body_i, body_j), i < j, or <<>> when there is none
PairEvent(body_i, body_j, to_remove) ==
    IF InList(body_i, to_remove) \/ InList(body_j, to_remove) THEN <<>>
    ELSE LET direction == RSub(body_j.position, body_i.position)
             distance == Magnitude(direction)
             collision_distance == RAdd(body_i.radius, body_j.radius)
             relative_vel == RSub(body_j.velocity, body_i.velocity)
             impact_velocity == Magnitude(relative_vel)
             total_mass == RAdd(body_i.mass, body_j.mass)
             collision_pos == RDiv(RAdd(RMul(body_i.position, body_j.mass),
                                        RMul(body_j.position, body_i.mass)),
                                   total_mass)
         IN  IF RLt(distance, collision_distance)
             THEN <<CollisionEvent(body_i, body_j, impact_velocity, collision_pos)>>
             ELSE <<>>

RECURSIVE DetectFrom(_, _, _, _)
\* the events of the pairs (i, j), (i, j+1), ..., then of the next rows
DetectFrom(bs, to_remove, i, j) ==
    IF i > Len(bs) THEN <<>>
    ELSE IF j > Len(bs) THEN DetectFrom(bs, to_remove, i + 1, i + 2)
    ELSE PairEvent(bs[i], bs[j], to_remove) \o DetectFrom(bs, to_remove, i, j + 1)

RECURSIVE Reversed(_)
Reversed(s) == IF s = <<>> THEN <<>> ELSE Append(Reversed(Tail(s)), Head(s))

\* the events of the pass, the last pair found first
detect_collisions_last_first(bs, to_remove) == Reversed(DetectFrom(bs, to_remove, 1, 2))

detect_collisions(bs, to_remove) == DetectFrom(bs, to_remove, 1, 2)

(***************************************************************************)
(* Inputs of the model                                                     *)
(***************************************************************************)
MaxBodies == 3

\* the engine's methods are called at most MaxCalls times
MaxCalls == 4

\* the bodies a caller constructs and hands to add_body:
\* <<name, mass, radius, position, velocity, is_star>>
Catalog ==
    { <<<<"Sun">>, R(3000), R(3), R(0), R(0), TRUE>>,
      <<<<"Rock">>, R(2), R(1), R(1), R(0), FALSE>>,
      <<<<"Comet">>, R(1), R(1), R(1), R(-60), FALSE>> }

\* the time deltas handed to update
DtSet == { Rat(1, 64) }

\* the arguments of set_time_scale
ScaleSet == { Rat(1, 1000), R(2) }

\* the draws of random.random()
USamples == { Rat(1, 4), Rat(3, 4) }

\* the random draws one handle_collision call can make
DrawsFor(event) ==
    LET supernova == /\ event.collision_type = "merge"
                     /\ RLt(R(SupernovaMassThreshold),
                            RAdd(event.body1.mass, event.body2.mass))
        ns == CASE event.collision_type = "explosion" -> 2..5
                [] event.collision_type = "fragment" -> 3..7
                [] supernova -> 3..6
                [] OTHER -> {0}
        ds == IF ns = {0} THEN {1} ELSE {1, -1}
        ws == IF event.collision_type = "fragment" \/ supernova THEN USamples ELSE {Zero}
    IN  [n : ns, d : ds, u : USamples, w : ws]

(***************************************************************************)
(* PhysicsEngine.__init__                                                  *)
(***************************************************************************)
Init ==
    /\ bodies = <<>>
    /\ time_scale = R(1)
    /\ paused = FALSE
    /\ total_time = Zero
    /\ particles = <<>>
    /\ collisions_enabled = TRUE
    /\ bodies_to_add = <<>>
    /\ bodies_to_remove = <<>>
    /\ collision_count = 0
    /\ pc = "idle"
    /\ collisions = <<>>
    /\ scaled_dt = Zero
    /\ next_id = 1
    /\ handled = <<>>
    /\ calls = 0
    /\ last_call = Call("__init__", R(1), FALSE)
    /\ collision_callback = FALSE
    /\ step = NoStep

(***************************************************************************)
(* The operations between two update() calls                               *)
(***************************************************************************)
\* add_body(CelestialBody(...))
AddBody(t) ==
    /\ pc = "idle"
    /\ calls < MaxCalls
    /\ calls' = calls + 1
    /\ last_call' = Call("add_body", Zero, FALSE)
    /\ Len(bodies) < MaxBodies
    /\ bodies' = Append(bodies, CelestialBody(next_id, t[1], t[2], t[3], t[4], t[5],
                                              t[6], DefaultTrailLength))
    /\ next_id' = next_id + 1
    /\ UNCHANGED <<time_scale, paused, total_time, particles, collisions_enabled,
                   bodies_to_add, bodies_to_remove, collision_count, pc, collisions,
                   scaled_dt, handled,
                   collision_callback, step>>

\* remove_body(bodies[i])
RemoveBody(i) ==
    /\ pc = "idle"
    /\ calls < MaxCalls
    /\ calls' = calls + 1
    /\ last_call' = Call("remove_body", Zero, FALSE)
    /\ i \in 1..Len(bodies)
    /\ bodies' = RemoveFirst(bodies, bodies[i])
    /\ UNCHANGED <<time_scale, paused, total_time, particles, collisions_enabled,
                   bodies_to_add, bodies_to_remove, collision_count, pc, collisions,
                   scaled_dt, next_id, handled,
                   collision_callback, step>>

\* clear()
Clear ==
    /\ pc = "idle"
    /\ calls < MaxCalls
    /\ calls' = calls + 1
    /\ last_call' = Call("clear", Zero, FALSE)
    /\ bodies' = <<>>
    /\ particles' = <<>>
    /\ bodies_to_add' = <<>>
    /\ bodies_to_remove' = <<>>
    /\ UNCHANGED <<time_scale, paused, total_time, collisions_enabled, collision_count,
                   pc, collisions, scaled_dt, next_id, handled,
                   collision_callback, step>>

\* toggle_pause() flipping the collision switch along with the pause
TogglePauseAndCollisions ==
    /\ pc = "idle"
    /\ calls < MaxCalls
    /\ calls' = calls + 1
    /\ last_call' = Call("toggle_pause", Zero, ~paused)
    /\ paused' = ~paused
    /\ collisions_enabled' = ~collisions_enabled
    /\ UNCHANGED <<bodies, time_scale, total_time, particles,
                   bodies_to_add, bodies_to_remove, collision_count, pc, collisions,
                   scaled_dt, next_id, handled,
                   collision_callback, step>>

\* toggle_pause()
TogglePause ==
    /\ pc = "idle"
    /\ calls < MaxCalls
    /\ calls' = calls + 1
    /\ last_call' = Call("toggle_pause", Zero, ~paused)
    /\ paused' = ~paused
    /\ UNCHANGED <<bodies, time_scale, total_time, particles, collisions_enabled,
                   bodies_to_add, bodies_to_remove, collision_count, pc, collisions,
                   scaled_dt, next_id, handled,
                   collision_callback, step>>

\* toggle_collisions()
ToggleCollisions ==
    /\ pc = "idle"
    /\ calls < MaxCalls
    /\ calls' = calls + 1
    /\ last_call' = Call("toggle_collisions", Zero, ~collisions_enabled)
    /\ collisions_enabled' = ~collisions_enabled
    /\ UNCHANGED <<bodies, time_scale, paused, total_time, particles,
                   bodies_to_add, bodies_to_remove, collision_count, pc, collisions,
                   scaled_dt, next_id, handled,
                   collision_callback, step>>

\* set_time_scale(scale) with the lower clamp only
SetTimeScaleNoCeiling(scale) ==
    /\ pc = "idle"
    /\ calls < MaxCalls
    /\ calls' = calls + 1
    /\ last_call' = Call("set_time_scale", scale, FALSE)
    /\ time_scale' = RMax(Rat(1, 100), scale)
    /\ UNCHANGED <<bodies, paused, total_time, particles, collisions_enabled,
                   bodies_to_add, bodies_to_remove, collision_count, pc, collisions,
                   scaled_dt, next_id, handled,
                   collision_callback, step>>

\* set_time_scale(scale)
SetTimeScale(scale) ==
    /\ pc = "idle"
    /\ calls < MaxCalls
    /\ calls' = calls + 1
    /\ last_call' = Call("set_time_scale", scale, FALSE)
    /\ time_scale' = RMax(Rat(1, 100), RMin(scale, R(100)))
    /\ UNCHANGED <<bodies, paused, total_time, particles, collisions_enabled,
                   bodies_to_add, bodies_to_remove, collision_count, pc, collisions,
                   scaled_dt, next_id, handled,
                   collision_callback, step>>

\* engine.collision_callback = callback, or None to unset it
SetCollisionCallback(callback) ==
    /\ pc = "idle"
    /\ calls < MaxCalls
    /\ calls' = calls + 1
    /\ last_call' = Call("collision_callback", Zero, FALSE)
    /\ collision_callback' = callback
    /\ UNCHANGED <<bodies, time_scale, paused, total_time, particles, collisions_enabled,
                   bodies_to_add, bodies_to_remove, collision_count, pc, collisions,
                   scaled_dt, next_id, handled, step>>

(***************************************************************************)
(* update(dt), step by step                                                *)
(***************************************************************************)
\* update(dt) while paused, returning before the particle effects advance
UpdatePausedFrozen(dt) ==
    /\ pc = "idle"
    /\ calls < MaxCalls
    /\ calls' = calls + 1
    /\ last_call' = Call("update", dt, FALSE)
    /\ paused
    /\ UNCHANGED <<bodies, time_scale, paused, total_time, particles,
                   collisions_enabled, bodies_to_add, bodies_to_remove,
                   collision_count, pc, collisions, scaled_dt, next_id, handled,
                   collision_callback, step>>

\* update(dt) while paused: the particles advance and the call returns
UpdatePaused(dt) ==
    /\ pc = "idle"
    /\ calls < MaxCalls
    /\ calls' = calls + 1
    /\ last_call' = Call("update", dt, FALSE)
    /\ paused
    /\ particles' = ParticlesUpdate(particles, dt)
    /\ UNCHANGED <<bodies, time_scale, paused, total_time, collisions_enabled,
                   bodies_to_add, bodies_to_remove, collision_count, pc, collisions,
                   scaled_dt, next_id, handled,
                   collision_callback, step>>

\* the sub-step loop ended in out: a raise ends the call there
Integrated(dt, out, sub_dt, substeps) ==
    /\ bodies' = out.bodies
    /\ step' = [step EXCEPT !.count = @ + (IF out.raised
                                           THEN StepsBeforeRaise(bodies, sub_dt, substeps)
                                           ELSE substeps)]
    /\ last_call' = [op |-> "update", arg |-> dt, returned |-> FALSE,
                     raised |-> out.raised]
    /\ pc' = IF out.raised THEN "idle"
             ELSE IF collisions_enabled THEN "detect" ELSE "effects"

\* update(dt) while running, up to the end of the sub-step loop
UpdateIntegrate(dt) ==
    /\ pc = "idle"
    /\ calls < MaxCalls
    /\ calls' = calls + 1
    /\ ~paused
    /\ LET scaled == RMul(dt, time_scale)
           substeps == Substeps(scaled, time_scale)
           sub_dt == RDiv(scaled, R(substeps))
       IN  /\ scaled_dt' = scaled
           /\ total_time' = RAdd(total_time, scaled)
           /\ Integrated(dt, PhysicsSteps(bodies, sub_dt, substeps), sub_dt, substeps)
    /\ handled' = <<>>
    /\ UNCHANGED <<time_scale, paused, particles, collisions_enabled, bodies_to_add,
                   bodies_to_remove, collision_count, collisions, next_id,
                   collision_callback>>

\* detect_collisions divides by a total mass of 0 (ValueError): an overlapping
\* pair, neither body marked for removal, whose masses sum to 0
DetectRaises(bs, to_remove) ==
    \E i \in 1..Len(bs), j \in 1..Len(bs) :
        /\ i < j
        /\ TrueDivRaises(RAdd(bs[i].mass, bs[j].mass))
        /\ ~InList(bs[i], to_remove) /\ ~InList(bs[j], to_remove)
        /\ RLt(Magnitude(RSub(bs[j].position, bs[i].position)),
               RAdd(bs[i].radius, bs[j].radius))

\* collisions = self.detect_collisions(); a raise ends the call there
Detect ==
    /\ pc = "detect"
    /\ IF DetectRaises(bodies, bodies_to_remove)
       THEN /\ collisions' = <<>>
            /\ pc' = "idle"
            /\ last_call' = [last_call EXCEPT !.raised = TRUE]
       ELSE /\ collisions' = detect_collisions(bodies, bodies_to_remove)
            /\ pc' = "resolve"
            /\ UNCHANGED last_call
    /\ UNCHANGED <<bodies, time_scale, paused, total_time, particles,
                   collisions_enabled, bodies_to_add, bodies_to_remove,
                   collision_count, scaled_dt, next_id, handled, calls,
                   collision_callback, step>>

\* the early return looking at the first body only
AlreadyProcessedFirstBodyOnly(event, to_remove) == InList(event.body1, to_remove)

\* handle_collision's early return
AlreadyProcessed(event, to_remove) ==
    InList(event.body1, to_remove) \/ InList(event.body2, to_remove)

\* the callback invoked on entry, before the removals and the products are
\* scheduled
CallbackOnEntry(callback, event, to_remove, to_add, count) ==
    IF callback
    THEN <<[event |-> event, to_remove |-> bodies_to_remove,
            to_add |-> bodies_to_add, collision_count |-> collision_count]>>
    ELSE <<>>

\* "if self.collision_callback: self.collision_callback(event)": the calls
\* made, each with what the callback finds scheduled and counted
Callback(callback, event, to_remove, to_add, count) ==
    IF callback
    THEN <<[event |-> event, to_remove |-> to_remove, to_add |-> to_add,
            collision_count |-> count]>>
    ELSE <<>>

\* handle_collision past its early return; out is what the type's handler did
HandleWith(event, out) ==
    /\ bodies_to_remove' = Append(Append(bodies_to_remove, event.body1), event.body2)
    /\ collision_count' = collision_count + 1
    /\ bodies_to_add' = bodies_to_add \o out.add
    /\ particles' = out.particles
    /\ next_id' = next_id + Len(out.add)
    /\ handled' = Append(handled, [event |-> event, resolved |-> TRUE,
                                   products |-> out.add,
                                   callback |-> Callback(collision_callback, event,
                                                         bodies_to_remove',
                                                         bodies_to_add',
                                                         collision_count')])

\* one iteration of "for event in collisions: self.handle_collision(event)"
HandleCollision ==
    /\ pc = "resolve"
    /\ collisions # <<>>
    /\ IF AlreadyProcessed(Head(collisions), bodies_to_remove)
       THEN /\ handled' = Append(handled, [event |-> Head(collisions),
                                           resolved |-> FALSE, products |-> <<>>,
                                           callback |-> <<>>])
            /\ UNCHANGED <<bodies_to_remove, bodies_to_add, collision_count,
                           particles, next_id>>
       ELSE \E rnd \in DrawsFor(Head(collisions)) :
              HandleWith(Head(collisions),
                         Resolve(Head(collisions), particles, collision_count + 1,
                                 next_id, rnd))
    /\ collisions' = Tail(collisions)
    /\ UNCHANGED <<bodies, time_scale, paused, total_time, collisions_enabled, pc,
                   scaled_dt, calls, last_call,
                   collision_callback, step>>

RECURSIVE RemoveAll(_, _)
\* for body in to_remove: if body in roster: roster.remove(body)
RemoveAll(roster, to_remove) ==
    IF to_remove = <<>> THEN roster
    ELSE RemoveAll(IF InList(Head(to_remove), roster)
                   THEN RemoveFirst(roster, Head(to_remove)) ELSE roster,
                   Tail(to_remove))

\* the additions applied, the removals forgotten
apply_pending_additions_only(roster, to_remove, to_add) == roster \o to_add

\* the roster after _apply_pending_changes
apply_pending_changes(roster, to_remove, to_add) == RemoveAll(roster, to_remove) \o to_add

\* the end of the event loop, then self._apply_pending_changes()
ApplyPending ==
    /\ pc = "resolve"
    /\ collisions = <<>>
    /\ bodies' = apply_pending_changes(bodies, bodies_to_remove, bodies_to_add)
    /\ bodies_to_remove' = <<>>
    /\ bodies_to_add' = <<>>
    /\ pc' = "effects"
    /\ UNCHANGED <<time_scale, paused, total_time, particles, collisions_enabled,
                   collision_count, collisions, scaled_dt, next_id, handled, calls, last_call,
                   collision_callback, step>>

\* the bodies that may leave a fire trail: fast and small
FireTrailBodies(bs) ==
    { k \in 1..Len(bs) : /\ RLt(R(80), Magnitude(bs[k].velocity))
                         /\ RLt(bs[k].radius, R(5)) }

RECURSIVE FireTrails(_, _, _)
\* m calls of create_fire_trail
FireTrails(ps, m, u) == IF m = 0 THEN ps ELSE FireTrails(create_fire_trail(ps, u), m - 1, u)

\* self.particles.update(scaled_dt), then the fire trails: each fast small body
\* leaves one with probability 0.3; none of them or all of them do
UpdateEffects ==
    /\ pc = "effects"
    /\ \E m \in {0, Cardinality(FireTrailBodies(bodies))} :
         \E u \in (IF m = 0 THEN {Zero} ELSE USamples) :
            particles' = FireTrails(ParticlesUpdate(particles, scaled_dt), m, u)
    /\ pc' = "idle"
    /\ UNCHANGED <<bodies, time_scale, paused, total_time, collisions_enabled,
                   bodies_to_add, bodies_to_remove, collision_count, collisions,
                   scaled_dt, next_id, handled, calls, last_call,
                   collision_callback, step>>

Next ==
    \/ \E t \in Catalog : AddBody(t)
    \/ \E i \in 1..MaxBodies : RemoveBody(i)
    \/ Clear
    \/ TogglePause
    \/ ToggleCollisions
    \/ \E scale \in ScaleSet : SetTimeScale(scale)
    \/ \E dt \in DtSet : UpdatePaused(dt)
    \/ \E dt \in DtSet : UpdateIntegrate(dt)
    \/ Detect
    \/ HandleCollision
    \/ ApplyPending
    \/ UpdateEffects

Spec == Init /\ [][Next]_vars

(***************************************************************************)
(* One collision, over a wide choice of the two bodies: the engine after   *)
(* two add_body calls, then one update(0).                                 *)
(***************************************************************************)
\* <<name, mass, radius, is_star>> of the bodies handed to add_body: dust
\* meets small bodies, large bodies meet small and large ones
SmallBodies ==
    { <<<<"Rock">>, R(2), R(1), FALSE>>,
      <<<<"Rock">>, R(5), R(1), FALSE>>,
      <<<<"Rock">>, R(10), R(1), FALSE>>,
      <<<<"Neutron", " Star">>, R(10), R(1), TRUE>>,
      <<<<"Neutron", " Shard">>, R(2), R(1), FALSE>>,
      <<<<"NEUTRON", " ", "BLACK HOLE">>, R(10), R(1), FALSE>> }

DustBodies ==
    { <<<<"Dust">>, Rat(1, 2000), Rat(1, 10), FALSE>>,
      <<<<"Dust">>, Rat(4, 1000), Rat(1, 10), FALSE>>,
      <<<<"Dust">>, Rat(1, 100), Rat(1, 10), FALSE>> }

LargeBodies ==
    { <<<<"Giant">>, R(5000), R(2), FALSE>>,
      <<<<"Star">>, R(2000), R(3), TRUE>>,
      <<<<"Star">>, R(3000), R(3), TRUE>>,
      <<<<"Star">>, R(4000), R(3), TRUE>>,
      <<<<"Black Hole">>, R(5000), R(2), TRUE>>,
      <<<<"Neutron", " Star">>, R(3000), R(1), TRUE>> }

PairBodies ==
    ((SmallBodies \cup DustBodies) \X (SmallBodies \cup DustBodies))
        \cup ((SmallBodies \cup LargeBodies) \X (SmallBodies \cup LargeBodies))

\* the speeds at which the second body approaches the first
PairSpeeds == { 0, 20, 30, 50, 60 }

\* the velocity of the first body
PairVelocity == R(10)

\* the second body's offset from the first
PairOffset == Rat(1, 16)

PairDtSet == { Zero }

InitPair ==
    /\ \E ab \in PairBodies, speed \in PairSpeeds :
          bodies = << CelestialBody(1, ab[1][1], ab[1][2], ab[1][3], Zero, PairVelocity,
                                    ab[1][4], DefaultTrailLength),
                      CelestialBody(2, ab[2][1], ab[2][2], ab[2][3], PairOffset,
                                    RSub(PairVelocity, R(speed)), ab[2][4],
                                    DefaultTrailLength) >>
    /\ time_scale = R(1)
    /\ paused = FALSE
    /\ total_time = Zero
    /\ particles = <<>>
    /\ collisions_enabled = TRUE
    /\ bodies_to_add = <<>>
    /\ bodies_to_remove = <<>>
    /\ collision_count = 0
    /\ pc = "idle"
    /\ collisions = <<>>
    /\ scaled_dt = Zero
    /\ next_id = 3
    /\ handled = <<>>
    /\ calls = MaxCalls - 1
    /\ last_call = Call("add_body", Zero, FALSE)
    /\ collision_callback = FALSE
    /\ step = NoStep

NextPair ==
    \/ \E dt \in PairDtSet : UpdateIntegrate(dt)
    \/ Detect
    \/ HandleCollision
    \/ ApplyPending
    \/ UpdateEffects

SpecPair == InitPair /\ [][NextPair]_vars

(***************************************************************************)
(* One collision pass over a crowd: the engine after three or more         *)
(* add_body calls, then one update(0).                                     *)
(***************************************************************************)
MaxCrowd == 4

\* <<name, mass, radius, position, velocity, is_star>>: the Comet touches the
\* Rock and the Moon, which do not touch each other
CrowdCatalog ==
    { <<<<"Rock">>, R(2), R(1), R(1), R(0), FALSE>>,
      <<<<"Comet">>, R(1), R(1), R(2), R(-60), FALSE>>,
      <<<<"Moon">>, R(2), R(1), R(3), R(0), FALSE>> }

InitCrowd ==
    /\ \E n \in 3..MaxCrowd : \E crowd \in [1..n -> CrowdCatalog] :
          /\ bodies = ListOf([k \in 1..n |->
                                 CelestialBody(k, crowd[k][1], crowd[k][2], crowd[k][3],
                                               crowd[k][4], crowd[k][5], crowd[k][6],
                                               DefaultTrailLength)], n)
          /\ next_id = n + 1
    /\ time_scale = R(1)
    /\ paused = FALSE
    /\ total_time = Zero
    /\ particles = <<>>
    /\ collisions_enabled = TRUE
    /\ bodies_to_add = <<>>
    /\ bodies_to_remove = <<>>
    /\ collision_count = 0
    /\ pc = "idle"
    /\ collisions = <<>>
    /\ scaled_dt = Zero
    /\ handled = <<>>
    /\ calls = MaxCalls - 1
    /\ last_call = Call("add_body", Zero, FALSE)
    /\ collision_callback = FALSE
    /\ step = NoStep

SpecCrowd == InitCrowd /\ [][NextPair]_vars

(***************************************************************************)
(* The aggregate queries                                                   *)
(***************************************************************************)
\* CelestialBody.kinetic_energy: 0.5 * m * v^2
kinetic_energy(body) == RMul(Rat(1, 2), RMul(body.mass, RMul(body.velocity, body.velocity)))

RECURSIVE KineticFrom(_, _)
KineticFrom(bs, k) ==
    IF k > Len(bs) THEN Zero ELSE RAdd(kinetic_energy(bs[k]), KineticFrom(bs, k + 1))

\* sum(body.kinetic_energy() for body in self.bodies)
total_kinetic_energy(bs) == KineticFrom(bs, 1)

\* CelestialBody.potential_energy_with: 0 at distance 0
potential_energy_with(body, other) ==
    IF Magnitude(RSub(body.position, other.position)) = Zero THEN Zero
    ELSE RNeg(RDiv(RMul(R(G), RMul(body.mass, other.mass)),
                   Magnitude(RSub(body.position, other.position))))

RECURSIVE PotentialFrom(_, _, _)
\* the double loop over the pairs (i, j), (i, j+1), ..., then the next rows
PotentialFrom(bs, i, j) ==
    IF i > Len(bs) THEN Zero
    ELSE IF j > Len(bs) THEN PotentialFrom(bs, i + 1, i + 2)
    ELSE RAdd(potential_energy_with(bs[i], bs[j]), PotentialFrom(bs, i, j + 1))

total_potential_energy(bs) == PotentialFrom(bs, 1, 2)

total_energy(bs) == RAdd(total_kinetic_energy(bs), total_potential_energy(bs))

RECURSIVE MassFrom(_, _)
MassFrom(bs, k) == IF k > Len(bs) THEN Zero ELSE RAdd(bs[k].mass, MassFrom(bs, k + 1))

RECURSIVE WeightedFrom(_, _)
WeightedFrom(bs, k) ==
    IF k > Len(bs) THEN Zero
    ELSE RAdd(RMul(bs[k].position, bs[k].mass), WeightedFrom(bs, k + 1))

\* center_of_mass without its test for an empty roster
center_of_mass_unguarded(bs) ==
    IF TrueDivRaises(MassFrom(bs, 1)) THEN [raised |-> TRUE, value |-> Zero]
    ELSE [raised |-> FALSE, value |-> RDiv(WeightedFrom(bs, 1), MassFrom(bs, 1))]

\* center_of_mass: what it returns, or that it raised (a total mass of 0)
center_of_mass(bs) ==
    IF bs = <<>> THEN [raised |-> FALSE, value |-> Zero]
    ELSE IF TrueDivRaises(MassFrom(bs, 1)) THEN [raised |-> TRUE, value |-> Zero]
    ELSE [raised |-> FALSE, value |-> RDiv(WeightedFrom(bs, 1), MassFrom(bs, 1))]

(***************************************************************************)
(* The particle system's own methods, called on engine.particles           *)
(***************************************************************************)
\* the particle counts asked of one burst
BurstSizes == { 600, 9800 }

\* particles.add_particle(Particle(..., lifetime = 3.0))
AddParticle ==
    /\ pc = "idle"
    /\ calls < MaxCalls
    /\ calls' = calls + 1
    /\ last_call' = Call("add_particle", Zero, FALSE)
    /\ particles' = IF ParticleCount(particles) < MaxParticles
                    THEN Append(particles, [n |-> 1, lifetime |-> R(3),
                                            particle_type |-> "debris"])
                    ELSE particles
    /\ UNCHANGED <<bodies, time_scale, paused, total_time, collisions_enabled,
                   bodies_to_add, bodies_to_remove, collision_count, pc, collisions,
                   scaled_dt, next_id, handled,
                   collision_callback, step>>

\* particles.create_explosion(position, color, num_particles = num)
CreateExplosion(num, u) ==
    /\ pc = "idle"
    /\ calls < MaxCalls
    /\ calls' = calls + 1
    /\ last_call' = Call("create_explosion", R(num), FALSE)
    /\ particles' = create_explosion(particles, num, R(2), u)
    /\ UNCHANGED <<bodies, time_scale, paused, total_time, collisions_enabled,
                   bodies_to_add, bodies_to_remove, collision_count, pc, collisions,
                   scaled_dt, next_id, handled,
                   collision_callback, step>>

\* particles.create_debris(position, velocity, color, num_particles = num)
CreateDebris(num, u) ==
    /\ pc = "idle"
    /\ calls < MaxCalls
    /\ calls' = calls + 1
    /\ last_call' = Call("create_debris", R(num), FALSE)
    /\ particles' = create_debris(particles, num, u)
    /\ UNCHANGED <<bodies, time_scale, paused, total_time, collisions_enabled,
                   bodies_to_add, bodies_to_remove, collision_count, pc, collisions,
                   scaled_dt, next_id, handled,
                   collision_callback, step>>

\* particles.create_shockwave(position, color, num_particles = num)
CreateShockwave(num) ==
    /\ pc = "idle"
    /\ calls < MaxCalls
    /\ calls' = calls + 1
    /\ last_call' = Call("create_shockwave", R(num), FALSE)
    /\ particles' = create_shockwave(particles, num)
    /\ UNCHANGED <<bodies, time_scale, paused, total_time, collisions_enabled,
                   bodies_to_add, bodies_to_remove, collision_count, pc, collisions,
                   scaled_dt, next_id, handled,
                   collision_callback, step>>

\* particles.create_fire_trail(position, velocity)
CreateFireTrail(u) ==
    /\ pc = "idle"
    /\ calls < MaxCalls
    /\ calls' = calls + 1
    /\ last_call' = Call("create_fire_trail", Zero, FALSE)
    /\ particles' = create_fire_trail(particles, u)
    /\ UNCHANGED <<bodies, time_scale, paused, total_time, collisions_enabled,
                   bodies_to_add, bodies_to_remove, collision_count, pc, collisions,
                   scaled_dt, next_id, handled,
                   collision_callback, step>>

\* particles.update(dt)
ParticlesUpdateCall(dt) ==
    /\ pc = "idle"
    /\ calls < MaxCalls
    /\ calls' = calls + 1
    /\ last_call' = Call("particles.update", dt, FALSE)
    /\ particles' = ParticlesUpdate(particles, dt)
    /\ UNCHANGED <<bodies, time_scale, paused, total_time, collisions_enabled,
                   bodies_to_add, bodies_to_remove, collision_count, pc, collisions,
                   scaled_dt, next_id, handled,
                   collision_callback, step>>

\* particles.clear()
ParticlesClear ==
    /\ pc = "idle"
    /\ calls < MaxCalls
    /\ calls' = calls + 1
    /\ last_call' = Call("particles.clear", Zero, FALSE)
    /\ particles' = <<>>
    /\ UNCHANGED <<bodies, time_scale, paused, total_time, collisions_enabled,
                   bodies_to_add, bodies_to_remove, collision_count, pc, collisions,
                   scaled_dt, next_id, handled,
                   collision_callback, step>>

(***************************************************************************)
(* A session: the engine after two add_body calls, then three more calls   *)
(* of the engine's or its particle system's methods.                       *)
(***************************************************************************)
\* the pairs of the session: <<name, mass, radius, is_star>> twice
SessionPairs ==
    { << <<<<"Black Hole">>, R(5000), R(2), TRUE>>, <<<<"Black Hole">>, R(5000), R(2), TRUE>> >>,
      << <<<<"Rock">>, R(2), R(1), FALSE>>, <<<<"Rock">>, R(2), R(1), FALSE>> >>,
      << <<<<"Rock">>, R(2), R(1), FALSE>>, <<<<"Rock">>, R(10), R(1), FALSE>> >> }

SessionSpeeds == { 0, 60 }

\* the time deltas handed to update while paused
SessionDtSet == { Rat(1, 64), R(1) }

InitSession ==
    /\ \E ab \in SessionPairs, speed \in SessionSpeeds :
          bodies = << CelestialBody(1, ab[1][1], ab[1][2], ab[1][3], Zero, PairVelocity,
                                    ab[1][4], DefaultTrailLength),
                      CelestialBody(2, ab[2][1], ab[2][2], ab[2][3], PairOffset,
                                    RSub(PairVelocity, R(speed)), ab[2][4],
                                    DefaultTrailLength) >>
    /\ time_scale = R(1)
    /\ paused = FALSE
    /\ total_time = Zero
    /\ particles = <<>>
    /\ collisions_enabled = TRUE
    /\ bodies_to_add = <<>>
    /\ bodies_to_remove = <<>>
    /\ collision_count = 0
    /\ pc = "idle"
    /\ collisions = <<>>
    /\ scaled_dt = Zero
    /\ next_id = 3
    /\ handled = <<>>
    /\ calls = MaxCalls - 3
    /\ last_call = Call("add_body", Zero, FALSE)
    /\ collision_callback = FALSE
    /\ step = NoStep

NextSession ==
    \/ \E dt \in PairDtSet : UpdateIntegrate(dt)
    \/ Detect
    \/ HandleCollision
    \/ ApplyPending
    \/ UpdateEffects
    \/ TogglePause
    \/ ToggleCollisions
    \/ \E dt \in SessionDtSet : UpdatePaused(dt)
    \/ Clear
    \/ \E num \in BurstSizes : CreateShockwave(num)

SpecSession == InitSession /\ [][NextSession]_vars

(***************************************************************************)
(* The same engine with its particle system driven directly between the    *)
(* frames.                                                                 *)
(***************************************************************************)
\* the draw behind a directly requested burst's lifetimes
BurstDraws == { Rat(1, 2) }

NextParticles ==
    \/ \E dt \in PairDtSet : UpdateIntegrate(dt)
    \/ Detect
    \/ HandleCollision
    \/ ApplyPending
    \/ UpdateEffects
    \/ AddParticle
    \/ \E num \in BurstSizes, u \in BurstDraws : CreateExplosion(num, u)
    \/ \E num \in BurstSizes, u \in BurstDraws : CreateDebris(num, u)
    \/ \E num \in BurstSizes : CreateShockwave(num)
    \/ \E u \in BurstDraws : CreateFireTrail(u)
    \/ \E dt \in SessionDtSet : ParticlesUpdateCall(dt)
    \/ ParticlesClear

SpecParticles == InitSession /\ [][NextParticles]_vars

(***************************************************************************)
(* The controls alone: the engine as constructed, then calls of            *)
(* set_time_scale, toggle_pause and toggle_collisions.                     *)
(***************************************************************************)
\* the arguments of set_time_scale: below, at, inside, at and above the range,
\* and the doubling and halving of the current value (the speed keys)
ScaleArgs(current) ==
    { Rat(1, 1000), Rat(1, 100), R(2), R(100), R(1000),
      RMul(current, R(2)), RDiv(current, R(2)) }

NextControls ==
    \/ \E scale \in ScaleArgs(time_scale) : SetTimeScale(scale)
    \/ TogglePause
    \/ ToggleCollisions

SpecControls == Init /\ [][NextControls]_vars

(***************************************************************************)
(* One force pass: the engine after two or three add_body calls, then      *)
(* compute_gravitational_forces().                                         *)
(***************************************************************************)
\* compute_gravitational_forces()
ComputeForces ==
    /\ pc = "idle"
    /\ calls < MaxCalls
    /\ calls' = calls + 1
    /\ last_call' = Call("compute_gravitational_forces", Zero, FALSE)
    /\ bodies' = compute_gravitational_forces(bodies)
    /\ UNCHANGED <<time_scale, paused, total_time, particles, collisions_enabled,
                   bodies_to_add, bodies_to_remove, collision_count, pc, collisions,
                   scaled_dt, next_id, handled,
                   collision_callback, step>>

\* <<name, mass, radius, position, velocity, is_star>>: bodies apart, two of
\* them coincident, two of them grazing
ForceCatalog ==
    { <<<<"A">>, R(3), R(1), R(0), R(0), FALSE>>,
      <<<<"B">>, R(7), R(1), R(3), R(0), FALSE>>,
      <<<<"C">>, R(2), R(1), R(10), R(0), FALSE>>,
      <<<<"D">>, R(7), R(1), R(0), R(0), FALSE>>,
      <<<<"E">>, R(3), R(1), R(4), R(0), FALSE>> }

InitForces ==
    /\ \E n \in 2..MaxBodies : \E rs \in [1..n -> ForceCatalog] :
          /\ bodies = ListOf([k \in 1..n |->
                                 CelestialBody(k, rs[k][1], rs[k][2], rs[k][3],
                                               rs[k][4], rs[k][5], rs[k][6],
                                               DefaultTrailLength)], n)
          /\ next_id = n + 1
    /\ time_scale = R(1)
    /\ paused = FALSE
    /\ total_time = Zero
    /\ particles = <<>>
    /\ collisions_enabled = TRUE
    /\ bodies_to_add = <<>>
    /\ bodies_to_remove = <<>>
    /\ collision_count = 0
    /\ pc = "idle"
    /\ collisions = <<>>
    /\ scaled_dt = Zero
    /\ handled = <<>>
    /\ calls = MaxCalls - 1
    /\ last_call = Call("add_body", Zero, FALSE)
    /\ collision_callback = FALSE
    /\ step = NoStep

SpecForces == InitForces /\ [][ComputeForces]_vars

(***************************************************************************)
(* Bodies as the constructor takes them: CelestialBody.__init__ stores the *)
(* mass and the radius it is given, whatever they are.                     *)
(***************************************************************************)
\* <<name, mass, radius, position, velocity, is_star>>: a body of mass 0, a
\* body of radius 0, and two ordinary bodies that touch without overlapping
UncheckedCatalog ==
    { <<<<"Ghost">>, R(0), R(1), R(1), R(0), FALSE>>,
      <<<<"Point">>, R(2), R(0), R(1), R(0), FALSE>>,
      <<<<"Rock">>, R(2), R(1), R(1), R(0), FALSE>>,
      <<<<"Moon">>, R(2), R(1), R(3), R(0), FALSE>> }

\* the time deltas handed to update
UncheckedDtSet == { Zero, Rat(1, 64) }

NextUnchecked ==
    \/ \E t \in UncheckedCatalog : AddBody(t)
    \/ TogglePause
    \/ \E dt \in UncheckedDtSet : UpdatePaused(dt)
    \/ \E dt \in UncheckedDtSet : UpdateIntegrate(dt)
    \/ Detect
    \/ HandleCollision
    \/ ApplyPending
    \/ UpdateEffects

SpecUnchecked == Init /\ [][NextUnchecked]_vars

(***************************************************************************)
(* Properties.  Operators over the record of the frame's events.           *)
(***************************************************************************)
EventBodies(event) == { event.body1.id, event.body2.id }

Shares(event1, event2) == EventBodies(event1) \cap EventBodies(event2) # {}

\* an earlier event of the pass was resolved and shares a body with event j
ResolvedBefore(j) ==
    \E i \in 1..(j - 1) :
        handled[i].resolved /\ Shares(handled[i].event, handled[j].event)

RECURSIVE ScheduledBy(_)
\* the products of the events of h, in order
ScheduledBy(h) == IF h = <<>> THEN <<>> ELSE Head(h).products \o ScheduledBy(Tail(h))

RECURSIVE RemovedBy(_)
\* the parents of the resolved events of h, in order
RemovedBy(h) ==
    IF h = <<>> THEN <<>>
    ELSE (IF Head(h).resolved THEN <<Head(h).event.body1, Head(h).event.body2>> ELSE <<>>)
             \o RemovedBy(Tail(h))

RECURSIVE ResolvedCount(_)
ResolvedCount(h) ==
    IF h = <<>> THEN 0
    ELSE (IF Head(h).resolved THEN 1 ELSE 0) + ResolvedCount(Tail(h))

IsPrefix(s, t) == Len(s) <= Len(t) /\ SubSeq(t, 1, Len(s)) = s

\* the bodies of the roster that are not in to_remove, in roster order
Survivors(roster, to_remove) == SelectSeq(roster, LAMBDA b : ~InList(b, to_remove))

\* C1 (as stated): of any two events of one pass that share a body, the later
\* one is never resolved - only the first in detection order is.
C1_OnlyFirstOfSharingResolved ==
    \A i, j \in 1..Len(handled) :
        (i < j /\ Shares(handled[i].event, handled[j].event))
            => ~handled[j].resolved

\* C1 (amended): within one collision pass an event is resolved exactly when
\* neither of its bodies is a parent of an earlier resolved event of the pass,
\* so each body takes part in at most one resolved collision; an ignored event
\* schedules no product, marks no body and does not count: the pending
\* additions are the products of the resolved events, the pending removals
\* their parents, and collision_count their number.
C1_OneResolvedCollisionPerBody ==
    /\ \A j \in 1..Len(handled) : handled[j].resolved <=> ~ResolvedBefore(j)
    /\ \A i, j \in 1..Len(handled) :
          (i < j /\ handled[i].resolved /\ handled[j].resolved)
              => ~Shares(handled[i].event, handled[j].event)
    /\ \A j \in 1..Len(handled) : ~handled[j].resolved => handled[j].products = <<>>
    /\ collision_count = ResolvedCount(handled)
    /\ pc = "resolve" => /\ bodies_to_add = ScheduledBy(handled)
                         /\ bodies_to_remove = RemovedBy(handled)

\* a pass in which an event is resolved although an earlier, ignored event
\* referenced one of its bodies
C1_ResolvedAfterIgnoredWitness ==
    \E i, j, k \in 1..Len(handled) :
        /\ i < j /\ j < k
        /\ handled[i].resolved /\ ~handled[j].resolved /\ handled[k].resolved
        /\ Shares(handled[i].event, handled[j].event)
        /\ Shares(handled[j].event, handled[k].event)
        /\ collision_count = 2

\* C2: detect_collisions and handle_collision never change the roster, they
\* only extend the two pending buffers; the step after the last event applies
\* every pending removal, then every pending addition, and empties both
\* buffers; between two update() calls both buffers are empty.
C2_RosterChangesAreBuffered ==
    /\ [](pc = "idle" => (bodies_to_add = <<>> /\ bodies_to_remove = <<>>))
    /\ [][ /\ (pc = "detect" \/ (pc = "resolve" /\ pc' = "resolve"))
               => /\ bodies' = bodies
                  /\ IsPrefix(bodies_to_add, bodies_to_add')
                  /\ IsPrefix(bodies_to_remove, bodies_to_remove')
           /\ (pc = "resolve" /\ pc' = "effects")
               => /\ bodies' = Survivors(bodies, bodies_to_remove) \o bodies_to_add
                  /\ bodies_to_add' = <<>>
                  /\ bodies_to_remove' = <<>> ]_vars

\* after the pass of a resolved collision: its products are in the roster, its
\* parents are not, and the buffers are empty
C2_AppliedWitness ==
    /\ pc = "effects"
    /\ bodies_to_add = <<>> /\ bodies_to_remove = <<>>
    /\ \E j \in 1..Len(handled) :
          /\ handled[j].resolved
          /\ handled[j].products # <<>>
          /\ \A k \in 1..Len(handled[j].products) : InList(handled[j].products[k], bodies)
          /\ ~InList(handled[j].event.body1, bodies)
          /\ ~InList(handled[j].event.body2, bodies)
          /\ Len(bodies) >= 2

(***************************************************************************)
(* Properties of one collision.  The name tests are spelled out here, by   *)
(* the spellings of the key words, so that they do not lean on Lower.      *)
(***************************************************************************)
BlackHoleSpellings == { "black hole", "Black Hole", "BLACK HOLE" }

NeutronSpellings == { "neutron", "Neutron", "NEUTRON" }

NamedBlackHole(body) == \E i \in 1..Len(body.name) : body.name[i] \in BlackHoleSpellings

NamedNeutron(body) == \E i \in 1..Len(body.name) : body.name[i] \in NeutronSpellings

\* every event detected in this frame, handled or still to handle
AllEvents ==
    { handled[j].event : j \in 1..Len(handled) } \cup { collisions[k] : k \in 1..Len(collisions) }

CombinedMass(event) == RAdd(event.body1.mass, event.body2.mass)

\* m1 * v1 + m2 * v2
CombinedMomentum(event) ==
    RAdd(RMul(event.body1.mass, event.body1.velocity),
         RMul(event.body2.mass, event.body2.velocity))

RECURSIVE SumMass(_)
SumMass(list) == IF list = <<>> THEN Zero ELSE RAdd(Head(list).mass, SumMass(Tail(list)))

RECURSIVE SumMomentum(_)
SumMomentum(list) ==
    IF list = <<>> THEN Zero
    ELSE RAdd(RMul(Head(list).mass, Head(list).velocity), SumMomentum(Tail(list)))

\* the products hold exactly one remnant, named after the second threshold,
\* and no body that carries the full combined mass under a parent's name "+"
RemnantOnly(h) ==
    /\ Cardinality({ k \in 1..Len(h.products) :
                       h.products[k].name \in { <<"Black Hole">>, <<"Neutron", " Star">> } }) = 1
    /\ \E k \in 1..Len(h.products) :
          h.products[k].name = IF RLt(R(6000), CombinedMass(h.event))
                               THEN <<"Black Hole">> ELSE <<"Neutron", " Star">>
    /\ \A k \in 1..Len(h.products) :
          /\ h.products[k].name \notin { h.event.body1.name \o <<"+">>,
                                         h.event.body2.name \o <<"+">> }
          /\ h.products[k].mass # CombinedMass(h.event)

NoExoticName(event) ==
    /\ ~NamedBlackHole(event.body1) /\ ~NamedNeutron(event.body1)
    /\ ~NamedBlackHole(event.body2) /\ ~NamedNeutron(event.body2)

\* the merge goes supernova: a star among the parents, no exotic name, and a
\* combined mass above the threshold
GoesSupernova(event) ==
    /\ event.body1.is_star \/ event.body2.is_star
    /\ NoExoticName(event)
    /\ RLt(R(4000), CombinedMass(event))

\* C3 (as stated): every resolved merge whose combined mass exceeds 4000
\* schedules exactly one remnant (Black Hole above 6000, else Neutron Star) and
\* no plain merged body.
C3_EveryHeavyMergeLeavesRemnant ==
    \A j \in 1..Len(handled) :
        (/\ handled[j].resolved
         /\ handled[j].event.collision_type = "merge"
         /\ RLt(R(4000), CombinedMass(handled[j].event)))
            => RemnantOnly(handled[j])

\* C3 (amended): every resolved merge with a star-flagged parent, no parent
\* named black hole or neutron, and a combined mass above 4000 schedules
\* exactly one remnant (Black Hole above 6000, else Neutron Star) and no plain
\* merged body.
C3_StellarHeavyMergeLeavesRemnant ==
    \A j \in 1..Len(handled) :
        (/\ handled[j].resolved
         /\ handled[j].event.collision_type = "merge"
         /\ GoesSupernova(handled[j].event))
            => RemnantOnly(handled[j])

\* a supernova above the second threshold, resolved
C3_BlackHoleRemnantWitness ==
    \E j \in 1..Len(handled) :
        /\ handled[j].resolved
        /\ handled[j].event.collision_type = "merge"
        /\ GoesSupernova(handled[j].event)
        /\ RLt(R(6000), CombinedMass(handled[j].event))
        /\ handled[j].products[1].name = <<"Black Hole">>
        /\ Len(handled[j].products) >= 4

\* one product with the parents' mass and momentum, and after the pass a roster
\* of that product alone
SingleMergedBody(h) ==
    /\ Len(h.products) = 1
    /\ h.products[1].mass = CombinedMass(h.event)
    /\ RMul(h.products[1].velocity, CombinedMass(h.event)) = CombinedMomentum(h.event)
    /\ pc = "effects" => /\ bodies = h.products
                         /\ SumMass(bodies) = CombinedMass(h.event)
                         /\ SumMomentum(bodies) = CombinedMomentum(h.event)

\* C4 (as stated): two overlapping bodies, one of them star-flagged, resolve
\* to a single body of mass m1 + m2 and velocity (m1*v1 + m2*v2)/(m1 + m2);
\* both parents leave the roster, whose mass and momentum are unchanged.
C4_StarCollisionMergesToOne ==
    \A j \in 1..Len(handled) :
        (/\ handled[j].resolved
         /\ handled[j].event.body1.is_star \/ handled[j].event.body2.is_star)
            => SingleMergedBody(handled[j])

\* C4 (amended): the same, for two bodies that are not both named black hole
\* and that do not go supernova (no exotic name and combined mass above 4000).
C4_StarCollisionBelowSupernovaMergesToOne ==
    \A j \in 1..Len(handled) :
        (/\ handled[j].resolved
         /\ handled[j].event.body1.is_star \/ handled[j].event.body2.is_star
         /\ ~(NamedBlackHole(handled[j].event.body1) /\ NamedBlackHole(handled[j].event.body2))
         /\ ~GoesSupernova(handled[j].event))
            => SingleMergedBody(handled[j])

\* a star and a lighter moving body merged, the pass applied
C4_MergedWitness ==
    /\ pc = "effects"
    /\ Len(bodies) = 1
    /\ \E j \in 1..Len(handled) :
          /\ handled[j].resolved
          /\ handled[j].event.collision_type = "merge"
          /\ handled[j].event.body1.is_star /\ ~handled[j].event.body2.is_star
          /\ NoExoticName(handled[j].event)
          /\ handled[j].event.body1.velocity # handled[j].event.body2.velocity
          /\ handled[j].event.body1.mass # handled[j].event.body2.mass
          /\ bodies = handled[j].products

\* C5: a collision resolved as fragment schedules one core with 60% of the
\* combined mass and 3 to 7 fragments whose masses sum to the other 40%, so
\* the products' total mass is the parents' combined mass.
C5_FragmentsShareRemainingMass ==
    \A j \in 1..Len(handled) :
        (handled[j].resolved /\ handled[j].event.collision_type = "fragment")
            => /\ Len(handled[j].products) \in 4..8
               /\ handled[j].products[1].mass = RMul(CombinedMass(handled[j].event), Rat(6, 10))
               /\ SumMass(Tail(handled[j].products))
                      = RMul(CombinedMass(handled[j].event), Rat(4, 10))
               /\ SumMass(handled[j].products) = CombinedMass(handled[j].event)

\* exotic absorbed consumed: one product with exotic's name and position and
\* the mass and momentum of both
Absorbed(h, exotic, consumed) ==
    /\ h.products[1].name = exotic.name
    /\ h.products[1].position = exotic.position
    /\ h.products[1].mass = RAdd(exotic.mass, consumed.mass)
    /\ RMul(h.products[1].velocity, RAdd(exotic.mass, consumed.mass))
          = RAdd(RMul(exotic.mass, exotic.velocity), RMul(consumed.mass, consumed.velocity))

C7_ExplosionLeavesOnlyFragments ==
    \A j \in 1..Len(handled) :
        (handled[j].resolved /\ handled[j].event.collision_type = "explosion")
            => /\ IF RLt(RMul(CombinedMass(handled[j].event), Rat(5, 100)), Rat(1, 1000))
                  THEN handled[j].products = <<>>
                  ELSE Len(handled[j].products) \in 2..5
               /\ \A k \in 1..Len(handled[j].products) :
                     /\ ~handled[j].products[k].is_star
                     /\ handled[j].products[k].mass
                            = RMul(CombinedMass(handled[j].event), Rat(5, 100))
               /\ RLe(SumMass(handled[j].products),
                      RMul(CombinedMass(handled[j].event), Rat(25, 100)))
               /\ pc = "effects" => /\ ~InList(handled[j].event.body1, bodies)
                                    /\ ~InList(handled[j].event.body2, bodies)
                                    /\ bodies = handled[j].products

\* an explosion that left five fragments, the pass applied
C7_FiveFragmentsWitness ==
    /\ pc = "effects"
    /\ Len(bodies) = 5
    /\ \E j \in 1..Len(handled) :
          /\ handled[j].resolved
          /\ handled[j].event.collision_type = "explosion"
          /\ SumMass(bodies) = RMul(CombinedMass(handled[j].event), Rat(25, 100))

\* C8: in every detected event, if exactly one name contains "black hole" (in
\* any case) the type is black_hole_consume, and if both do it is
\* black_hole_merge, whatever the neutron naming, star flags, masses and speed.
C8_BlackHoleRulesFirst ==
    \A event \in AllEvents :
        /\ (NamedBlackHole(event.body1) # NamedBlackHole(event.body2))
              => event.collision_type = "black_hole_consume"
        /\ (NamedBlackHole(event.body1) /\ NamedBlackHole(event.body2))
              => event.collision_type = "black_hole_merge"

\* an upper-case black hole that is also named neutron, light and not a
\* star, meets a far heavier neutron star at explosion speed
C8_NeutronNamedBlackHoleWitness ==
    \E event \in AllEvents :
        /\ NamedBlackHole(event.body1) /\ NamedNeutron(event.body1)
        /\ event.body1.name = <<"NEUTRON", " ", "BLACK HOLE">>
        /\ ~event.body1.is_star
        /\ NamedNeutron(event.body2) /\ ~NamedBlackHole(event.body2)
        /\ RLt(RMul(R(2), event.body1.mass), event.body2.mass)
        /\ RLt(R(50), event.impact_velocity)
        /\ event.collision_type = "black_hole_consume"

\* neutron is named neutron, other is no star and has less than half its mass
NeutronConsumes(neutron, other) ==
    /\ NamedNeutron(neutron)
    /\ ~other.is_star
    /\ RLt(RMul(R(2), other.mass), neutron.mass)

\* C9: in every detected event with no black-hole name, the type is
\* neutron_consume iff one body is named neutron, the other is not a star and
\* has strictly less than half its mass; any other event with a neutron name is
\* a merge, whatever the impact velocity.
C9_NeutronRule ==
    \A event \in AllEvents :
        (~NamedBlackHole(event.body1) /\ ~NamedBlackHole(event.body2))
            => /\ event.collision_type = "neutron_consume"
                    <=> (NeutronConsumes(event.body1, event.body2)
                            \/ NeutronConsumes(event.body2, event.body1))
               /\ ((NamedNeutron(event.body1) \/ NamedNeutron(event.body2))
                       /\ ~NeutronConsumes(event.body1, event.body2)
                       /\ ~NeutronConsumes(event.body2, event.body1))
                     => event.collision_type = "merge"

\* a body of exactly half the neutron star's mass, at explosion speed: merge
C9_HalfMassWitness ==
    \E event \in AllEvents :
        /\ NamedNeutron(event.body2) /\ ~NamedNeutron(event.body1)
        /\ ~event.body1.is_star
        /\ RMul(R(2), event.body1.mass) = event.body2.mass
        /\ RLt(R(50), event.impact_velocity)
        /\ event.collision_type = "merge"

\* max(mass) / max(0.001, min(mass)) < 5
RatioBelowFive(event) ==
    RLt(RMax(event.body1.mass, event.body2.mass),
        RMul(R(5), RMax(Rat(1, 1000), RMin(event.body1.mass, event.body2.mass))))

\* C10: in every detected event with no black-hole or neutron name: a star
\* among the two makes it a merge; otherwise it is an explosion iff the impact
\* velocity exceeds 50, a fragment iff the velocity is above 20 and at most 50
\* and the mass ratio is below 5, and a merge in every other case.
C10_VelocityAndRatioRule ==
    \A event \in AllEvents :
        NoExoticName(event)
            => IF event.body1.is_star \/ event.body2.is_star
               THEN event.collision_type = "merge"
               ELSE /\ event.collision_type = "explosion"
                         <=> RLt(R(50), event.impact_velocity)
                    /\ event.collision_type = "fragment"
                         <=> (/\ RLt(R(20), event.impact_velocity)
                              /\ RLe(event.impact_velocity, R(50))
                              /\ RatioBelowFive(event))
                    /\ event.collision_type \in { "explosion", "fragment", "merge" }

\* two specks below 0.001, eight times apart in mass, at fragment speed: the
\* floor under the smaller mass brings the ratio below 5
C10_FlooredRatioWitness ==
    \E event \in AllEvents :
        /\ NoExoticName(event)
        /\ ~event.body1.is_star /\ ~event.body2.is_star
        /\ RLt(RMin(event.body1.mass, event.body2.mass), Rat(1, 1000))
        /\ RLe(RMul(R(5), RMin(event.body1.mass, event.body2.mass)),
               RMax(event.body1.mass, event.body2.mass))
        /\ event.impact_velocity = R(30)
        /\ event.collision_type = "fragment"

(***************************************************************************)
(* Properties of the controls, the particle system and the frame           *)
(***************************************************************************)
\* the particles of ps that outlive dt more seconds
Outliving(ps, dt) == SelectSeq(ps, LAMBDA p : RLt(dt, p.lifetime))

\* ps2 is ps1 with every lifetime dt shorter and the expired particles gone
AgedBy(ps1, ps2, dt) ==
    /\ Len(ps2) = Len(Outliving(ps1, dt))
    /\ \A k \in 1..Len(ps2) :
          /\ ps2[k].n = Outliving(ps1, dt)[k].n
          /\ ps2[k].particle_type = Outliving(ps1, dt)[k].particle_type
          /\ ps2[k].lifetime = RSub(Outliving(ps1, dt)[k].lifetime, dt)

\* a step that is a call of update(dt) on a paused engine
PausedUpdateStep == pc = "idle" /\ paused /\ calls' = calls + 1 /\ last_call'.op = "update"

\* C11: while paused, update(dt) leaves the roster (membership, positions,
\* velocities, trails), total_time and collision_count as they were and runs no
\* collision detection, and it advances the particles: every lifetime is dt
\* shorter and the particles at or below zero are removed.
C11_PausedUpdateAdvancesOnlyParticles ==
    [][PausedUpdateStep
          => /\ bodies' = bodies
             /\ total_time' = total_time
             /\ collision_count' = collision_count
             /\ pc' = "idle" /\ collisions' = collisions /\ handled' = handled
             /\ bodies_to_add' = bodies_to_add /\ bodies_to_remove' = bodies_to_remove
             /\ AgedBy(particles, particles', last_call'.arg)]_vars

\* a paused update over two overlapping bodies: they stay, undetected, while
\* the shockwave particles (created with 0.5 s to live) have aged
C11_PausedAgedWitness ==
    /\ paused /\ last_call.op = "update" /\ pc = "idle"
    /\ Len(bodies) = 2
    /\ RLt(RAbs(RSub(bodies[1].position, bodies[2].position)),
           RAdd(bodies[1].radius, bodies[2].radius))
    /\ collision_count = 0
    /\ \E k \in 1..Len(particles) :
          /\ particles[k].particle_type = "shockwave"
          /\ RLt(particles[k].lifetime, Rat(1, 2))

\* C12: set_time_scale(s) leaves time_scale at s when 0.01 <= s <= 100, at 0.01
\* when s is below and at 100 when s is above; whatever the calls (doubling and
\* halving included), time_scale stays within [0.01, 100].
C12_TimeScaleClamped ==
    /\ RLe(Rat(1, 100), time_scale) /\ RLe(time_scale, R(100))
    /\ last_call.op = "set_time_scale"
          => time_scale = (IF RLt(last_call.arg, Rat(1, 100)) THEN Rat(1, 100)
                           ELSE IF RLt(R(100), last_call.arg) THEN R(100)
                           ELSE last_call.arg)

\* the scale doubled from 100: asked for 200, left at 100
C12_DoubledAtCeilingWitness ==
    /\ last_call.op = "set_time_scale"
    /\ last_call.arg = R(200)
    /\ time_scale = R(100)

\* a step that is a call of the method op
CallStep(op) == pc = "idle" /\ calls' = calls + 1 /\ last_call'.op = op

\* what none of the three controls touches
SimulationUntouched ==
    /\ bodies' = bodies /\ particles' = particles
    /\ total_time' = total_time /\ collision_count' = collision_count
    /\ bodies_to_add' = bodies_to_add /\ bodies_to_remove' = bodies_to_remove

\* C13: toggle_pause flips paused, returns the new value and changes nothing
\* else; toggle_collisions does the same for collisions_enabled; set_time_scale
\* changes time_scale only.  None of them changes the other two controls, the
\* roster, the particles, total_time or collision_count.  (A flag flipped twice
\* is back where it was.)
C13_ControlsAreIndependent ==
    [][/\ CallStep("toggle_pause")
            => /\ paused' = ~paused /\ last_call'.returned = paused'
               /\ collisions_enabled' = collisions_enabled
               /\ time_scale' = time_scale
               /\ SimulationUntouched
       /\ CallStep("toggle_collisions")
            => /\ collisions_enabled' = ~collisions_enabled
               /\ last_call'.returned = collisions_enabled'
               /\ paused' = paused
               /\ time_scale' = time_scale
               /\ SimulationUntouched
       /\ CallStep("set_time_scale")
            => /\ paused' = paused
               /\ collisions_enabled' = collisions_enabled
               /\ SimulationUntouched]_vars

\* the pause toggled on with a body in the roster and particles alive: it
\* returned TRUE and collisions are still enabled
C13_PausedMidSimulationWitness ==
    /\ last_call.op = "toggle_pause" /\ last_call.returned
    /\ paused /\ collisions_enabled
    /\ bodies # <<>> /\ particles # <<>>
    /\ collision_count > 0

\* the particles held, counted batch by batch
RECURSIVE Held(_, _)
Held(ps, k) == IF k = 0 THEN 0 ELSE ps[k].n + Held(ps, k - 1)

\* C14: in every reachable state the particle system holds at most
\* max_particles particles, whatever bursts were asked of it, directly or by the
\* collision handlers.
C14_ParticlesWithinCapacity == Held(particles, Len(particles)) <= 10000

\* a frame whose collision burst was cut short by the capacity: the system is
\* exactly full after the update
C14_FullAfterCollisionWitness ==
    /\ last_call.op = "update" /\ pc = "idle"
    /\ collision_count = 1
    /\ Len(particles) >= 2
    /\ particles[1].n = 9800
    /\ Held(particles, Len(particles)) = 10000

\* the methods that emit particles
EmissionCalls ==
    { "add_particle", "create_explosion", "create_debris", "create_shockwave",
      "create_fire_trail" }

\* a step that may remove particles: update (of the engine, in its effects
\* phase or paused, or of the particle system) and clear
RemovingStep ==
    \/ pc = "effects"
    \/ pc = "idle" /\ paused /\ last_call'.op = "update" /\ calls' = calls + 1
    \/ \E op \in { "particles.update", "particles.clear", "clear" } : CallStep(op)

\* C15: with the particle system at capacity, every emission (a direct call or
\* a collision handler's burst) returns without error and leaves the collection
\* as it was: the new particles are dropped and none is evicted.  Particles
\* leave the collection only in update (expiry) or clear: every other step
\* keeps the particles it found, in place.
C15_FullSystemDropsNewParticles ==
    [][/\ (Held(particles, Len(particles)) = 10000
             /\ ((\E op \in EmissionCalls : CallStep(op)) \/ pc = "resolve"))
          => (particles' = particles /\ ~last_call'.raised)
       /\ ~RemovingStep => IsPrefix(particles, particles')]_vars

\* a debris burst asked of a full system: it returned and no debris is held
C15_DroppedBurstWitness ==
    /\ last_call.op = "create_debris" /\ ~last_call.raised
    /\ Held(particles, Len(particles)) = 10000
    /\ \A k \in 1..Len(particles) : particles[k].particle_type # "debris"

\* the overlapping pairs <<i, j>>, i < j, of the roster bs in the order of the
\* double loop over the roster
RECURSIVE OverlapsFrom(_, _, _)
OverlapsFrom(bs, i, j) ==
    IF i > Len(bs) THEN <<>>
    ELSE IF j > Len(bs) THEN OverlapsFrom(bs, i + 1, i + 2)
    ELSE (IF RLt(RAbs(RSub(bs[j].position, bs[i].position)),
                 RAdd(bs[i].radius, bs[j].radius))
          THEN << <<bs[i].id, bs[j].id>> >> ELSE <<>>) \o OverlapsFrom(bs, i, j + 1)

\* the pairs of the events handled so far in this frame, then of those waiting
RECURSIVE PairsOf(_, _)
PairsOf(h, waiting) ==
    IF h # <<>> THEN << <<Head(h).event.body1.id, Head(h).event.body2.id>> >>
                         \o PairsOf(Tail(h), waiting)
    ELSE IF waiting # <<>> THEN << <<Head(waiting).body1.id, Head(waiting).body2.id>> >>
                                    \o PairsOf(h, Tail(waiting))
    ELSE <<>>

\* the identities of the bodies the frame's collisions have created
ProductIds == { ScheduledBy(handled)[k].id : k \in 1..Len(ScheduledBy(handled)) }

\* C16: a running update with collisions enabled takes all its sub-steps, then
\* one detection pass over the integrated roster, then resolves the events in
\* the order of detection, then applies the pending roster changes, then
\* updates the particles.  Detection does not run between sub-steps, and the
\* bodies a collision creates are neither integrated nor part of an event in
\* the frame that creates them.
C16_FrameOrder ==
    /\ [](/\ pc = "resolve"
               => /\ PairsOf(handled, collisions) = OverlapsFrom(bodies, 1, 2)
                  /\ \A k \in 1..Len(bodies) : bodies[k].id \notin ProductIds
          /\ (pc = "effects" /\ collisions_enabled)
               => /\ collisions = <<>> /\ bodies_to_add = <<>> /\ bodies_to_remove = <<>>
                  /\ \A k \in 1..Len(ScheduledBy(handled)) :
                        InList(ScheduledBy(handled)[k], bodies))
    /\ [][/\ (pc = "idle" /\ pc' # "idle")
               => /\ pc' = (IF collisions_enabled THEN "detect" ELSE "effects")
                  /\ Len(bodies') = Len(bodies)
                  /\ \A k \in 1..Len(bodies) :
                        bodies'[k].trail_update_counter
                            = (bodies[k].trail_update_counter
                                 + Substeps(scaled_dt', time_scale)) % TrailUpdateFrequency
          /\ pc = "detect" => (pc' = "resolve" /\ bodies' = bodies)
          /\ pc = "resolve"
               => /\ pc' \in { "resolve", "effects" }
                  /\ pc' = "resolve" => bodies' = bodies
                  /\ pc' = "effects" => collisions = <<>>
          /\ pc = "effects" => (pc' = "idle" /\ bodies' = bodies)]_vars

\* a frame with three events: the first was resolved and created a body, which
\* is in the roster after the pass exactly as created, its trail still empty
C16_ProductWaitsWitness ==
    /\ pc = "effects"
    /\ Len(handled) = 3
    /\ handled[1].resolved
    /\ Len(handled[1].products) >= 1
    /\ InList(handled[1].products[1], bodies)
    /\ handled[1].products[1].trail = <<>>

\* the sum over the roster of mass * accumulated acceleration
RECURSIVE NetForce(_, _)
NetForce(bs, k) ==
    IF k = 0 THEN Zero ELSE RAdd(RMul(bs[k].mass, bs[k].acceleration), NetForce(bs, k - 1))

\* C17 as stated: after a force pass the sum of mass * acceleration over the
\* roster is the zero vector.
C17_NetForceIsExactlyZero ==
    last_call.op = "compute_gravitational_forces" => NetForce(bodies, Len(bodies)) = Zero

\* the pairs i < j the pass applies a force to: those at or beyond min_dist
AppliedPairs(bs) ==
    { p \in (1..Len(bs)) \X (1..Len(bs)) :
        /\ p[1] < p[2]
        /\ RLe(RMul(RAdd(bs[p[1]].radius, bs[p[2]].radius), Rat(1, 2)),
               RAbs(RSub(bs[p[2]].position, bs[p[1]].position))) }

\* what the rounding of force / mass on the two bodies of the pair p can leave
\* of their two contributions: half a quantum of acceleration times each mass,
\* and a relative 2^-MantissaBits of the force (taken as at most twice
\* G m_i m_j / d^2) on either side
PairRounding(bs, p) ==
    RAdd(RMul(RAdd(bs[p[1]].mass, bs[p[2]].mass), Rat(1, 2 ^ (QuantumBits + 1))),
         RMul(RDiv(RMul(R(4 * 100), RMul(bs[p[1]].mass, bs[p[2]].mass)),
                   RMul(RSub(bs[p[2]].position, bs[p[1]].position),
                        RSub(bs[p[2]].position, bs[p[1]].position))),
              Rat(1, 2 ^ MantissaBits)))

RECURSIVE RoundingOver(_, _)
RoundingOver(bs, pairs) ==
    IF pairs = {} THEN Zero
    ELSE LET p == CHOOSE q \in pairs : TRUE
         IN  RAdd(PairRounding(bs, p), RoundingOver(bs, pairs \ {p}))

\* C17: in a force pass the force applied to body j is the exact negation of the
\* force applied to body i, for every pair; each acceleration is force / mass
\* rounded to floating point, so the sum of mass * acceleration over the roster
\* is zero up to that rounding: within half a quantum of acceleration per body
\* and a relative 2^-MantissaBits per applied force.
C17_NetForceIsZeroUpToRounding ==
    last_call.op = "compute_gravitational_forces"
        => RLe(RAbs(NetForce(bodies, Len(bodies))),
               RoundingOver(bodies, AppliedPairs(bodies)))

\* a pass over three bodies apart from each other: every body is accelerated
\* and the rounding shows in the sum
C17_ThreeBodiesPulledWitness ==
    /\ last_call.op = "compute_gravitational_forces"
    /\ Len(bodies) = 3
    /\ \A k \in 1..3 : bodies[k].acceleration # Zero
    /\ Cardinality(AppliedPairs(bodies)) = 3
    /\ NetForce(bodies, 3) # Zero

\* C18 as stated: a body of non-positive mass or radius is rejected at
\* construction, so the roster never holds one.
C18_RosterBodiesArePositive ==
    \A k \in 1..Len(bodies) :
        RLt(Zero, bodies[k].mass) /\ RLt(Zero, bodies[k].radius)

\* every body of the roster has a positive mass
PositiveMasses == \A k \in 1..Len(bodies) : RLt(Zero, bodies[k].mass)

\* how far update() is from returning: the phases it still has to go through
StepsLeft(at) ==
    CASE at = "detect" -> 3 [] at = "resolve" -> 2 [] at = "effects" -> 1 [] at = "idle" -> 0

\* C20: an update(dt), dt >= 0, over a roster of positive-mass bodies (bodies
\* coincident at zero distance and products of earlier collisions included)
\* does not raise, running or paused, and runs to completion: every event
\* waiting has a handler to run, and every step of the call brings it closer
\* to its return (a phase further, or one event fewer to handle), after which
\* the engine can be stepped again.
C20_UpdateCompletes ==
    /\ [](/\ (last_call.op = "update" /\ last_call.raised) => ~PositiveMasses
          /\ (pc = "resolve" /\ collisions # <<>>)
                => DrawsFor(Head(collisions)) # {})
    /\ [][pc # "idle"
            => \/ StepsLeft(pc') < StepsLeft(pc)
               \/ pc' = pc /\ Len(collisions') < Len(collisions)]_vars

\* a running update completed over two bodies of radius 0 at the same place: the
\* force pass does not skip the pair, whose distance is zero
C20_CoincidentPointsWitness ==
    /\ last_call.op = "update" /\ ~last_call.raised /\ pc = "idle"
    /\ ~paused /\ RLt(Zero, total_time)
    /\ Len(bodies) >= 2
    /\ PositiveMasses
    /\ bodies[1].position = bodies[2].position
    /\ bodies[1].radius = Zero /\ bodies[2].radius = Zero

\* C19: after clear() the roster, the particles and both pending buffers are
\* empty, total_kinetic_energy, total_potential_energy and total_energy return
\* 0 and center_of_mass returns the zero vector, none of them raising.
C19_ClearLeavesNeutralState ==
    last_call.op = "clear"
        => /\ bodies = <<>> /\ particles = <<>>
           /\ bodies_to_add = <<>> /\ bodies_to_remove = <<>>
           /\ total_kinetic_energy(bodies) = Zero
           /\ total_potential_energy(bodies) = Zero
           /\ total_energy(bodies) = Zero
           /\ center_of_mass(bodies) = [raised |-> FALSE, value |-> Zero]

\* clear() called after a frame that resolved a collision
C19_ClearedAfterCollisionWitness ==
    /\ last_call.op = "clear"
    /\ collision_count > 0
    /\ RLt(Zero, total_time)
    /\ bodies = <<>>

(***************************************************************************)
(* An observed crowd: the engine after three add_body calls, then the      *)
(* collision callback set or unset and update(0) called.                   *)
(***************************************************************************)
InitObserved ==
    /\ \E crowd \in [1..3 -> CrowdCatalog] :
          bodies = ListOf([k \in 1..3 |->
                              CelestialBody(k, crowd[k][1], crowd[k][2], crowd[k][3],
                                            crowd[k][4], crowd[k][5], crowd[k][6],
                                            DefaultTrailLength)], 3)
    /\ next_id = 4
    /\ time_scale = R(1)
    /\ paused = FALSE
    /\ total_time = Zero
    /\ particles = <<>>
    /\ collisions_enabled = TRUE
    /\ bodies_to_add = <<>>
    /\ bodies_to_remove = <<>>
    /\ collision_count = 0
    /\ pc = "idle"
    /\ collisions = <<>>
    /\ scaled_dt = Zero
    /\ handled = <<>>
    /\ calls = MaxCalls - 2
    /\ last_call = Call("add_body", Zero, FALSE)
    /\ collision_callback = FALSE
    /\ step = NoStep

NextObserved ==
    \/ \E callback \in BOOLEAN : SetCollisionCallback(callback)
    \/ \E dt \in PairDtSet : UpdateIntegrate(dt)
    \/ Detect
    \/ HandleCollision
    \/ ApplyPending
    \/ UpdateEffects

SpecObserved == InitObserved /\ [][NextObserved]_vars

\* the entry a handle_collision step adds to the frame's record
JustHandled == handled'[Len(handled')]

\* the callback was called once, with the event, and found both parents
\* marked, every product scheduled and the collision counted
CalledOnceAfterScheduling(h) ==
    /\ Len(h.callback) = 1
    /\ h.callback[1].event = h.event
    /\ h.callback[1].to_remove = bodies_to_remove'
    /\ InList(h.event.body1, h.callback[1].to_remove)
    /\ InList(h.event.body2, h.callback[1].to_remove)
    /\ h.callback[1].to_add = bodies_to_add'
    /\ IsPrefix(bodies_to_add \o h.products, h.callback[1].to_add)
    /\ h.callback[1].collision_count = collision_count + 1

\* C21: the collision callback, when set, is called exactly once for each
\* resolved collision, after the collision's removals and products have been
\* scheduled, and never for an ignored event; collision_count grows by exactly
\* 1 per resolved collision and by nothing else, so the bodies the pass
\* removes from the roster are twice the collisions it counted.
C21_CallbackOncePerResolvedCollision ==
    [][/\ (pc = "resolve" /\ collisions # <<>>)
            => /\ (JustHandled.resolved /\ collision_callback)
                      => CalledOnceAfterScheduling(JustHandled)
               /\ (~JustHandled.resolved \/ ~collision_callback)
                      => JustHandled.callback = <<>>
               /\ collision_count' = collision_count
                                        + (IF JustHandled.resolved THEN 1 ELSE 0)
       /\ ~(pc = "resolve" /\ collisions # <<>>) => collision_count' = collision_count
       /\ (pc = "resolve" /\ pc' = "effects")
            => Len(bodies) - (Len(bodies') - Len(bodies_to_add))
                  = 2 * ResolvedCount(handled)]_vars

\* a pass over, in which the callback was called for a resolved collision and an
\* event was ignored
C21_CalledAndIgnoredWitness ==
    /\ pc = "effects"
    /\ collision_callback
    /\ \E i, j \in 1..Len(handled) :
          /\ handled[i].resolved /\ Len(handled[i].callback) = 1
          /\ ~handled[j].resolved

(***************************************************************************)
(* _physics_step(dt), statement by statement                               *)
(***************************************************************************)
\* _physics_step(dt) is entered
PhysicsStepCall(dt) ==
    /\ pc = "idle"
    /\ calls < MaxCalls
    /\ calls' = calls + 1
    /\ last_call' = Call("_physics_step", dt, FALSE)
    /\ bodies # <<>>
    /\ pc' = "step"
    /\ step' = [step EXCEPT !.at = 1, !.fresh = FALSE, !.dt = dt, !.start = bodies]
    /\ UNCHANGED <<bodies, time_scale, paused, total_time, particles, collisions_enabled,
                   bodies_to_add, bodies_to_remove, collision_count, collisions,
                   scaled_dt, next_id, handled, collision_callback>>

\* the stage the step stands at
StageAt == YoshidaStages[step.at]

\* a drift loop; the last one also updates the trails and ends the step
StepDrift ==
    /\ pc = "step"
    /\ StageAt.op = "drift"
    /\ IF step.at = Len(YoshidaStages)
       THEN /\ bodies' = UpdateTrails(Drift(bodies, StageAt.coef, step.dt))
            /\ step' = [step EXCEPT !.at = 0, !.count = @ + 1]
            /\ pc' = "idle"
       ELSE /\ bodies' = Drift(bodies, StageAt.coef, step.dt)
            /\ step' = [step EXCEPT !.at = @ + 1]
            /\ pc' = "step"
    /\ UNCHANGED <<time_scale, paused, total_time, particles, collisions_enabled,
                   bodies_to_add, bodies_to_remove, collision_count, collisions,
                   scaled_dt, next_id, handled, calls, last_call, collision_callback>>

\* the kick's velocity loop running on the accelerations the bodies hold
StepForcesSkipped ==
    /\ pc = "step"
    /\ StageAt.op = "kick"
    /\ ~step.fresh
    /\ step' = [step EXCEPT !.fresh = TRUE]
    /\ UNCHANGED <<bodies, time_scale, paused, total_time, particles,
                   collisions_enabled, bodies_to_add, bodies_to_remove,
                   collision_count, pc, collisions, scaled_dt, next_id, handled,
                   calls, last_call, collision_callback>>

\* self.compute_gravitational_forces() ahead of a kick; a raise ends the call
StepForces ==
    /\ pc = "step"
    /\ StageAt.op = "kick"
    /\ ~step.fresh
    /\ IF ForcePassRaises(bodies)
       THEN /\ bodies' = ForcePassInterrupted(bodies)
            /\ step' = [step EXCEPT !.at = 0]
            /\ pc' = "idle"
            /\ last_call' = [last_call EXCEPT !.raised = TRUE]
       ELSE /\ bodies' = compute_gravitational_forces(bodies)
            /\ step' = [step EXCEPT !.fresh = TRUE]
            /\ pc' = "step"
            /\ UNCHANGED last_call
    /\ UNCHANGED <<time_scale, paused, total_time, particles, collisions_enabled,
                   bodies_to_add, bodies_to_remove, collision_count, collisions,
                   scaled_dt, next_id, handled, calls, collision_callback>>

\* a kick's velocity loop
StepKick ==
    /\ pc = "step"
    /\ StageAt.op = "kick"
    /\ step.fresh
    /\ bodies' = KickVelocities(bodies, StageAt.coef, step.dt)
    /\ step' = [step EXCEPT !.at = @ + 1, !.fresh = FALSE]
    /\ UNCHANGED <<time_scale, paused, total_time, particles, collisions_enabled,
                   bodies_to_add, bodies_to_remove, collision_count, pc, collisions,
                   scaled_dt, next_id, handled, calls, last_call, collision_callback>>

(***************************************************************************)
(* Integration steps alone: the engine after two or more add_body calls,   *)
(* then calls of _physics_step.                                            *)
(***************************************************************************)
\* the _physics_step calls of a run
MaxSteps == 16

\* <<name, mass, radius, position, velocity, is_star, trail_length>>
StepCatalog ==
    { <<<<"A">>, R(3), R(1), R(0), R(1), FALSE, 1>>,
      <<<<"B">>, R(7), R(1), R(3), R(0), FALSE, 2>>,
      <<<<"C">>, R(2), R(1), R(10), R(-2), FALSE, 0>> }

StepDtSet == { Rat(1, 64) }

InitStep ==
    /\ \E n \in 2..MaxBodies : \E rs \in [1..n -> StepCatalog] :
          /\ bodies = ListOf([k \in 1..n |->
                                 CelestialBody(k, rs[k][1], rs[k][2], rs[k][3],
                                               rs[k][4], rs[k][5], rs[k][6],
                                               rs[k][7])], n)
          /\ next_id = n + 1
    /\ time_scale = R(1)
    /\ paused = FALSE
    /\ total_time = Zero
    /\ particles = <<>>
    /\ collisions_enabled = TRUE
    /\ bodies_to_add = <<>>
    /\ bodies_to_remove = <<>>
    /\ collision_count = 0
    /\ pc = "idle"
    /\ collisions = <<>>
    /\ scaled_dt = Zero
    /\ handled = <<>>
    /\ calls = MaxCalls - MaxSteps
    /\ last_call = Call("add_body", Zero, FALSE)
    /\ collision_callback = FALSE
    /\ step = NoStep

NextStep ==
    \/ \E dt \in StepDtSet : PhysicsStepCall(dt)
    \/ StepDrift
    \/ StepForces
    \/ StepKick

SpecStep == InitStep /\ [][NextStep]_vars

\* every position moved by velocity * (c * dt); velocities and accelerations kept
Drifted(c) ==
    /\ Len(bodies') = Len(bodies)
    /\ \A k \in 1..Len(bodies) :
          /\ bodies'[k].position
                = RAdd(bodies[k].position, FMul(bodies[k].velocity, FMul(c, step.dt)))
          /\ bodies'[k].velocity = bodies[k].velocity
          /\ bodies'[k].acceleration = bodies[k].acceleration

\* the accelerations the bodies hold are those of their present positions
AccelerationsFresh(bs) ==
    \A k \in 1..Len(bs) :
        bs[k].acceleration = compute_gravitational_forces(bs)[k].acceleration

\* every velocity moved by acceleration * (d * dt), the acceleration being that
\* of the present positions; positions kept
Kicked(d) ==
    /\ Len(bodies') = Len(bodies)
    /\ AccelerationsFresh(bodies)
    /\ \A k \in 1..Len(bodies) :
          /\ bodies'[k].velocity
                = RAdd(bodies[k].velocity,
                       FMul(bodies[k].acceleration, FMul(d, step.dt)))
          /\ bodies'[k].position = bodies[k].position

\* the forces were recomputed and nothing moved
Recomputed ==
    /\ Len(bodies') = Len(bodies)
    /\ AccelerationsFresh(bodies')
    /\ \A k \in 1..Len(bodies) :
          /\ bodies'[k].position = bodies[k].position
          /\ bodies'[k].velocity = bodies[k].velocity

\* no trail and no trail counter changed
TrailsKept ==
    \A k \in 1..Len(bodies) :
        /\ bodies'[k].trail = bodies[k].trail
        /\ bodies'[k].trail_update_counter = bodies[k].trail_update_counter

\* every trail counter advanced or wrapped
TrailsSampled ==
    \A k \in 1..Len(bodies) :
        bodies'[k].trail_update_counter # bodies[k].trail_update_counter

\* the coefficient the statement expects at stage k of the step
ExpectedCoefficient(k) ==
    CASE k = 1 -> c1 [] k = 2 -> d1 [] k = 3 -> c2 [] k = 4 -> d2
      [] k = 5 -> c3 [] k = 6 -> d3 [] k = 7 -> c4

SubstepScales == { Rat(1, 100), R(2), Rat(23, 10), R(3), R(100) }

\* the frame deltas: none, a usual one, 8 * max_substep_dt and a long one
SubstepDtSet == { Zero, Rat(1, 64), Rat(4, 25), Rat(1, 4) }

InitSubsteps ==
    /\ bodies = << CelestialBody(1, <<"Rock">>, R(2), R(1), Zero, R(1), FALSE,
                                 DefaultTrailLength) >>
    /\ next_id = 2
    /\ time_scale = R(1)
    /\ paused = FALSE
    /\ total_time = Zero
    /\ particles = <<>>
    /\ collisions_enabled = TRUE
    /\ bodies_to_add = <<>>
    /\ bodies_to_remove = <<>>
    /\ collision_count = 0
    /\ pc = "idle"
    /\ collisions = <<>>
    /\ scaled_dt = Zero
    /\ handled = <<>>
    /\ calls = MaxCalls - 3
    /\ last_call = Call("add_body", Zero, FALSE)
    /\ collision_callback = FALSE
    /\ step = NoStep

\* a lone body meets nothing: the event loop of update() has no iteration
NextSubsteps ==
    \/ \E scale \in SubstepScales : SetTimeScale(scale)
    \/ \E dt \in SubstepDtSet : UpdateIntegrate(dt)
    \/ Detect
    \/ ApplyPending
    \/ UpdateEffects

SpecSubsteps == InitSubsteps /\ [][NextSubsteps]_vars

\* the integration steps an update step ran
StepsRun == step'.count - step.count

\* the frame's elapsed simulation time
Elapsed == RMul(last_call'.arg, time_scale)

\* base_substeps * time_scale / 2, truncated
ScaledBase == RFloor(RMul(R(BaseSubsteps), RDiv(time_scale, R(2))))

\* C24: a non-paused update(dt), dt >= 0, time_scale in [0.01, 100], runs the
\* integration step exactly N times, with N >= base_substeps = 8 and
\* N >= int(base_substeps * time_scale / 2); each step is handed
\* dt * time_scale / N, which is at most max_substep_dt = 0.02; and N differs
\* from max(8, int(base_substeps * time_scale / 2)) only upwards, only when
\* that many steps would be longer than the ceiling.
C24_SubstepCountAndCeiling ==
    [][(pc = "idle" /\ ~paused /\ last_call'.op = "update")
          => /\ RLe(Zero, last_call'.arg)
             /\ RLe(Rat(1, 100), time_scale) /\ RLe(time_scale, R(100))
             /\ StepsRun >= BaseSubsteps
             /\ StepsRun >= ScaledBase
             /\ RLe(RDiv(Elapsed, R(StepsRun)), Rat(2, 100))
             /\ bodies' = PhysicsSteps(bodies, RDiv(Elapsed, R(StepsRun)), StepsRun).bodies
             /\ scaled_dt' = Elapsed
             /\ \/ StepsRun = BaseSubsteps
                \/ StepsRun = ScaledBase
                \/ /\ StepsRun > BaseSubsteps /\ StepsRun > ScaledBase
                   /\ RLt(Rat(2, 100), RDiv(Elapsed, R(BaseSubsteps)))
                   /\ RLt(Rat(2, 100), RDiv(Elapsed, R(ScaledBase)))]_vars

\* a frame over whose step count the ceiling raised above both lower bounds
C24_CeilingRaisedWitness ==
    /\ pc = "idle"
    /\ last_call.op = "update"
    /\ time_scale = R(3)
    /\ last_call.arg = Rat(1, 4)
    /\ step.count = 38

\* the centres of the roster's bodies i and j are closer than their radii add up to
Overlapping(i, j) ==
    RLt(RAbs(RSub(bodies[j].position, bodies[i].position)),
        RAdd(bodies[i].radius, bodies[j].radius))

\* the centres of bodies i and j are exactly as far apart as their radii add up to
Touching(i, j) ==
    RAbs(RSub(bodies[j].position, bodies[i].position))
        = RAdd(bodies[i].radius, bodies[j].radius)

\* the events of the detected list that are about the roster's pair (i, j)
EventsOf(i, j) ==
    { e \in 1..Len(collisions) : /\ collisions[e].body1.id = bodies[i].id
                                 /\ collisions[e].body2.id = bodies[j].id }

\* the roster index of a body
IndexOf(body) == CHOOSE k \in 1..Len(bodies) : bodies[k].id = body.id

\* C25: the list detect_collisions returns holds exactly one event for each
\* pair i < j of the roster whose centre distance is strictly less than the sum
\* of the radii, and no other event: touching bodies and coincident bodies of
\* radius 0 do not collide; the events are in the lexicographic order of (i, j),
\* which is the order in which the frame handles them.
C25_DetectionIsExactAndOrdered ==
    /\ []((pc = "resolve" /\ handled = <<>>) =>
            /\ \A i, j \in 1..Len(bodies) :
                  i < j => Cardinality(EventsOf(i, j))
                              = (IF Overlapping(i, j) THEN 1 ELSE 0)
            /\ \A e \in 1..Len(collisions) :
                  /\ InList(collisions[e].body1, bodies)
                  /\ InList(collisions[e].body2, bodies)
                  /\ IndexOf(collisions[e].body1) < IndexOf(collisions[e].body2)
            /\ \A e, f \in 1..Len(collisions) :
                  e < f => \/ IndexOf(collisions[e].body1) < IndexOf(collisions[f].body1)
                           \/ /\ IndexOf(collisions[e].body1) = IndexOf(collisions[f].body1)
                              /\ IndexOf(collisions[e].body2) < IndexOf(collisions[f].body2))
    /\ [][(pc = "resolve" /\ collisions # <<>>)
            => /\ handled'[Len(handled')].event = Head(collisions)
               /\ Len(handled') = Len(handled) + 1
               /\ collisions' = Tail(collisions)]_vars

\* a detected list with two events, of a roster in which two bodies of radius 0
\* coincide without colliding
C25_TouchingPairsSkippedWitness ==
    /\ pc = "resolve" /\ handled = <<>>
    /\ Len(collisions) = 2
    /\ \E i, j \in 1..Len(bodies) :
          /\ i < j /\ Touching(i, j) /\ EventsOf(i, j) = {}
          /\ bodies[i].radius = Zero /\ bodies[j].radius = Zero

\* the centre of mass of the two bodies of an event
CentreOfMassOf(event) ==
    RDiv(RAdd(RMul(event.body1.mass, event.body1.position),
              RMul(event.body2.mass, event.body2.position)),
         RAdd(event.body1.mass, event.body2.mass))

\* the frame's only event was resolved as a merge into one body
PlainMerge ==
    /\ Len(handled) = 1
    /\ handled[1].resolved
    /\ handled[1].event.collision_type = "merge"
    /\ Len(handled[1].products) = 1

\* C26: the position recorded for a colliding pair, which a merged body takes,
\* is the centre of mass (m_i*p_i + m_j*p_j)/(m_i + m_j) of the two bodies, so
\* it is at least as near to the heavier body as to the lighter one, and a plain
\* merge leaves the roster's center_of_mass() unchanged.
C26_CollisionPositionIsCentreOfMass ==
    /\ [](\A j \in 1..Len(handled) :
             /\ handled[j].event.position = CentreOfMassOf(handled[j].event)
             /\ RLt(handled[j].event.body1.mass, handled[j].event.body2.mass)
                   => RLe(RAbs(RSub(handled[j].event.position,
                                    handled[j].event.body2.position)),
                          RAbs(RSub(handled[j].event.position,
                                    handled[j].event.body1.position)))
             /\ (handled[j].resolved /\ handled[j].event.collision_type = "merge"
                   /\ Len(handled[j].products) = 1)
                   => handled[j].products[1].position = handled[j].event.position)
    /\ [][(pc = "resolve" /\ pc' = "effects" /\ PlainMerge)
            => center_of_mass(bodies') = center_of_mass(bodies)]_vars

(***************************************************************************)
(* Trails: three bodies of trail capacity 1, 2 and 0 stepped, and the      *)
(* trails cleared as the application's C key does.                         *)
(***************************************************************************)
\* CelestialBody.clear_trail
clear_trail(body) == [body EXCEPT !.trail = <<>>]

\* for body in self.physics.bodies: body.clear_trail()
ClearTrails ==
    /\ pc = "idle"
    /\ calls < MaxCalls
    /\ calls' = calls + 1
    /\ last_call' = Call("clear_trail", Zero, FALSE)
    /\ bodies' = ListOf([k \in 1..Len(bodies) |-> clear_trail(bodies[k])], Len(bodies))
    /\ step' = [step EXCEPT !.cleared = step.count]
    /\ UNCHANGED <<time_scale, paused, total_time, particles, collisions_enabled,
                   bodies_to_add, bodies_to_remove, collision_count, pc, collisions,
                   scaled_dt, next_id, handled, collision_callback>>

\* <<name, mass, radius, position, velocity, is_star, trail_length>>
TrailRoster ==
    << <<<<"A">>, R(3), R(1), R(0), R(1), FALSE, 1>>,
       <<<<"B">>, R(7), R(1), R(3), R(0), FALSE, 2>>,
       <<<<"C">>, R(2), R(1), R(10), R(-2), FALSE, 0>> >>

InitTrail ==
    /\ bodies = ListOf([k \in 1..3 |->
                           CelestialBody(k, TrailRoster[k][1], TrailRoster[k][2],
                                         TrailRoster[k][3], TrailRoster[k][4],
                                         TrailRoster[k][5], TrailRoster[k][6],
                                         TrailRoster[k][7])], 3)
    /\ next_id = 4
    /\ time_scale = R(1)
    /\ paused = FALSE
    /\ total_time = Zero
    /\ particles = <<>>
    /\ collisions_enabled = TRUE
    /\ bodies_to_add = <<>>
    /\ bodies_to_remove = <<>>
    /\ collision_count = 0
    /\ pc = "idle"
    /\ collisions = <<>>
    /\ scaled_dt = Zero
    /\ handled = <<>>
    /\ calls = MaxCalls - MaxSteps
    /\ last_call = Call("add_body", Zero, FALSE)
    /\ collision_callback = FALSE
    /\ step = NoStep

NextTrail ==
    \/ \E dt \in StepDtSet : PhysicsStepCall(dt)
    \/ StepDrift
    \/ StepForces
    \/ StepKick
    \/ ClearTrails

SpecTrail == InitTrail /\ [][NextTrail]_vars

\* the smaller of two numbers
Min(a, b) == IF a < b THEN a ELSE b

\* the last n entries of a list
LastOf(list, n) == SubSeq(list, Len(list) - Min(n, Len(list)) + 1, Len(list))

\* the trail is within its capacity and the counter within 0..4, in step with
\* the number of integration steps
TrailBounded(body) ==
    /\ Len(body.trail) <= body.trail_length
    /\ body.trail_update_counter \in 0..(TrailUpdateFrequency - 1)
    /\ body.trail_update_counter = step.count % TrailUpdateFrequency

\* a step that samples appends the new position and, on overflow, drops the
\* oldest point; a step that does not sample leaves the trail alone
SampledFirstInFirstOut ==
    (pc = "step" /\ step.at = 7) =>
        \A k \in 1..Len(bodies) :
            bodies'[k].trail
                = IF bodies[k].trail_update_counter = TrailUpdateFrequency - 1
                  THEN LastOf(Append(bodies[k].trail, bodies'[k].position),
                              bodies[k].trail_length)
                  ELSE bodies[k].trail

\* C27 as stated: after k integration steps since its creation a body's trail
\* holds min(floor(k/5), trail_length) points; the trail never exceeds
\* trail_length, drops its oldest point on overflow, and trail_update_counter
\* is in 0..4 after every step.
C27_TrailHoldsEveryFifthStep ==
    /\ [](pc = "idle" =>
            \A k \in 1..Len(bodies) :
                /\ Len(bodies[k].trail)
                      = Min(step.count \div TrailUpdateFrequency, bodies[k].trail_length)
                /\ TrailBounded(bodies[k]))
    /\ [][SampledFirstInFirstOut]_vars

\* C27 (amended): after k integration steps since its creation a body's trail
\* holds min(floor(k/5) - floor(c/5), trail_length) points, c being the number
\* of steps the body had taken when clear_trail() was last called on it (0 if
\* never); the trail never exceeds trail_length, drops its oldest point on
\* overflow, and trail_update_counter is in 0..4 after every step.
C27_TrailHoldsEveryFifthStepSinceCleared ==
    /\ [](pc = "idle" =>
            \A k \in 1..Len(bodies) :
                /\ Len(bodies[k].trail)
                      = Min((step.count \div TrailUpdateFrequency)
                               - (step.cleared \div TrailUpdateFrequency),
                            bodies[k].trail_length)
                /\ TrailBounded(bodies[k]))
    /\ [][SampledFirstInFirstOut]_vars

\* a trail of capacity 1 that was cleared after its first sample and has
\* overflowed since
C27_OverflowedAfterClearWitness ==
    /\ pc = "idle"
    /\ step.cleared >= TrailUpdateFrequency
    /\ \E k \in 1..Len(bodies) :
          /\ bodies[k].trail_length = 1
          /\ Len(bodies[k].trail) = 1
          /\ (step.count \div TrailUpdateFrequency)
                - (step.cleared \div TrailUpdateFrequency) >= 2

\* the type of the event's pair taken in the other order
SwappedType(event) == CollisionType(event.body2, event.body1, event.impact_velocity)

\* C28: the classification is symmetric: the type computed for (A, B) at an
\* impact velocity is the type computed for (B, A) at that velocity, so the
\* outcome class does not depend on the order of the two bodies in the roster.
C28_ClassificationIsSymmetric ==
    /\ \A e \in 1..Len(collisions) :
          collisions[e].collision_type = SwappedType(collisions[e])
    /\ \A j \in 1..Len(handled) :
          handled[j].event.collision_type = SwappedType(handled[j].event)

\* a collision resolved as neutron-consume whose neutron star is the second
\* body of the pair
C28_SecondBodyNeutronWitness ==
    /\ pc = "effects"
    /\ Len(handled) = 1
    /\ handled[1].resolved
    /\ handled[1].event.collision_type = "neutron_consume"
    /\ IsNeutronName(handled[1].event.body2.name)
    /\ ~IsNeutronName(handled[1].event.body1.name)

\* a body of the list is black-hole-named
HasBlackHole(list) == \E k \in 1..Len(list) : IsBlackHoleName(list[k].name)

\* one of the event's two bodies is black-hole-named
InvolvesBlackHole(event) ==
    IsBlackHoleName(event.body1.name) \/ IsBlackHoleName(event.body2.name)

\* C29: update() calls never leave a roster that held a black-hole-named body
\* without one: an event that involves a black-hole-named body is a
\* black-hole-consume or a black-hole-merge, and a resolved one schedules a
\* single product, again black-hole-named.
C29_BlackHolesSurvive ==
    /\ [](\A j \in 1..Len(handled) :
             InvolvesBlackHole(handled[j].event)
                => /\ handled[j].event.collision_type
                         \in { "black_hole_consume", "black_hole_merge" }
                   /\ handled[j].resolved
                         => /\ Len(handled[j].products) = 1
                            /\ IsBlackHoleName(handled[j].products[1].name))
    /\ [][(last_call'.op = "update" /\ HasBlackHole(bodies)) => HasBlackHole(bodies')]_vars

\* a pass over in which a black hole, second of its pair, consumed the first
\* body: the roster is the grown black hole alone
C29_ConsumedByBlackHoleWitness ==
    /\ pc = "effects"
    /\ Len(handled) = 1
    /\ handled[1].resolved
    /\ handled[1].event.collision_type = "black_hole_consume"
    /\ IsBlackHoleName(handled[1].event.body2.name)
    /\ Len(bodies) = 1
    /\ IsBlackHoleName(bodies[1].name)
    /\ bodies[1].id = handled[1].products[1].id

\* the heavier and the lighter body of an event
Heavier(event) ==
    IF RLt(event.body1.mass, event.body2.mass) THEN event.body2 ELSE event.body1

Lighter(event) ==
    IF RLt(event.body1.mass, event.body2.mass) THEN event.body1 ELSE event.body2

\* C30: in every collision resolved as neutron_consume the consumed body is the
\* one whose mass is less than half the other's: the product has the name and
\* the position of the heavier body, which is neutron-named - also when both
\* names contain "neutron", whichever of the two is first in the roster.
C30_NeutronConsumeKeepsHeavierBody ==
    \A j \in 1..Len(handled) :
        (handled[j].resolved /\ handled[j].event.collision_type = "neutron_consume")
            => /\ RLt(RMul(R(2), Lighter(handled[j].event).mass),
                      Heavier(handled[j].event).mass)
               /\ IsNeutronName(Heavier(handled[j].event).name)
               /\ Len(handled[j].products) = 1
               /\ handled[j].products[1].name = Heavier(handled[j].event).name
               /\ handled[j].products[1].position = Heavier(handled[j].event).position

====
